---- MODULE Spec2Model ----
(***************************************************************************)
(* A model of the shard holder's resharding state machine and of the shard *)
(* transfer helpers of the collection crate.                               *)
(*                                                                         *)
(* Build profile: release.  debug_assert! statements are compiled out, so  *)
(* they are comments here; every `?` on an operation that touches the disk *)
(* or a replica set is a place where the call may return early with a      *)
(* service error (the `fail` input of an action names that place).         *)
(***************************************************************************)
EXTENDS Integers, FiniteSets, Sequences, TLC

\* ---------------------------------------------------------------- bounds
MaxShardId == 3
MaxPeerId == 2
MaxExternalChanges == 1
MaxReshardings == 1
MaxFailures == 1

ShardIds == 1..MaxShardId
PeerIds == 1..MaxPeerId

\* Option<ShardKey>: None (the default key) or a custom key.
NoKey == "None"
CustomKeys == {"k1"}
ShardKeys == {NoKey} \cup CustomKeys

Directions == {"Up", "Down"}
Stages == {"MigratingPoints", "ReadHashRingCommitted", "WriteHashRingCommitted"}
\* A replica's state; "-" stands for "the peer holds no replica".
ReplicaStates == {"Active", "Dead", "Resharding"}
NoReplica == "-"

VARIABLES
    rings,                    \* ShardHolder.rings: shard key -> HashRingRouter
    resharding_state,         \* ShardHolder.resharding_state: Option<ReshardState>
    shards,                   \* ShardHolder.shards: shard id -> replica set
    shard_id_to_key_mapping,  \* ShardHolder.shard_id_to_key_mapping
    key_mapping,              \* ShardHolder.key_mapping: custom key -> shard ids
    last,                     \* the last call on the holder and what it returned
    ext_changes,              \* number of replica changes made by other operations
    started,                  \* number of reshardings started so far
    failures,                 \* number of calls that failed on the disk or a replica set
    shard_transfers,          \* the collection's active transfers: HashSet<ShardTransfer>
    proxied,                  \* shards whose local shard is wrapped in a proxy
    handler,                  \* handle_transferred_shard_proxy: where it stands
    task,                     \* the task of spawn_transfer_task: its locals and what it did
    stopped,                  \* the task's stop flag (Arc<AtomicBool>)
    stoppable,                \* a task of spawn_stoppable and its StoppableTaskHandle
    drop_future,              \* a future returned by cancel::future::on_drop
    opt,                      \* a segment holder with one optimizer run on it
    hnsw,                     \* a GraphLayersBuilder and the workers that build it
    fn_call,                  \* the last call of a function of its arguments alone, and its result
    segment,                  \* a Segment written through SegmentEntry with the caller's versions
    coll,                     \* a Collection: its write-ahead log, its segment in memory and on disk
    inverted_index,           \* an InvertedIndexOnDisk: its counter and its column families
    toc,                      \* a TableOfContent: collections, aliases, the collections lock, two callers
    indexing                  \* an IndexingOptimizer and the holder it is run on until it is idle

holderVars == <<rings, resharding_state, shards, shard_id_to_key_mapping, key_mapping>>
reshardVars == <<holderVars, last, ext_changes, started, failures>>
transferVars == <<shard_transfers, proxied, handler>>
taskVars == <<task, stopped>>
cancelVars == <<stoppable, drop_future>>
segVars == <<opt>>
hnswVars == <<hnsw>>
fnVars == <<fn_call>>
storeVars == <<segment, coll>>
iidxVars == <<inverted_index>>
tocVars == <<toc>>
indexingVars == <<indexing>>

\* ------------------------------------------------------- HashRingRouter
\* A hash ring is determined by the set of shards placed on it.
Single(r) == [kind |-> "Single", old |-> r, new |-> r]
ReshardingRouter(o, n) == [kind |-> "Resharding", old |-> o, new |-> n]
NoRing == [kind |-> "Absent", old |-> {}, new |-> {}]

is_resharding(router) == router.kind = "Resharding"

ring_add(router, shard) ==
    IF router.kind = "Single" THEN Single(router.old \cup {shard})
    ELSE IF shard \notin router.old /\ shard \notin router.new
         THEN ReshardingRouter(router.old \cup {shard}, router.new \cup {shard})
         ELSE router

ring_start_resharding(router, shard, direction) ==
    LET base == IF router.kind = "Single"
                THEN ReshardingRouter(router.old, router.old) ELSE router
    IN  ReshardingRouter(base.old,
            IF direction = "Up" THEN base.new \cup {shard} ELSE base.new \ {shard})

ring_commit_resharding(router) ==
    IF is_resharding(router) THEN Single(router.new) ELSE router

\* Reverting the ring brings back the ring the resharding started from.
ring_abort_resharding(router, shard, direction) ==
    IF is_resharding(router) THEN Single(router.old) ELSE router

\* ---------------------------------------------------------- ReshardState
NoState == [present |-> FALSE, direction |-> "-", peer_id |-> 0, shard_id |-> 0,
            shard_key |-> "-", stage |-> "-"]

ReshardKeys == [direction : Directions, peer_id : PeerIds, shard_id : ShardIds,
                shard_key : ShardKeys]

\* ReshardState::new: a new resharding starts at the first stage.
ReshardState_new(key) ==
    [present |-> TRUE, direction |-> key.direction, peer_id |-> key.peer_id,
     shard_id |-> key.shard_id, shard_key |-> key.shard_key, stage |-> "MigratingPoints"]

matches(state, key) ==
    /\ state.present
    /\ state.direction = key.direction
    /\ state.peer_id = key.peer_id
    /\ state.shard_id = key.shard_id
    /\ state.shard_key = key.shard_key

\* ReshardStage derives its order from the order of its variants.
StageRank(stage) ==
    CASE stage = "MigratingPoints" -> 0
      [] stage = "ReadHashRingCommitted" -> 1
      [] stage = "WriteHashRingCommitted" -> 2
      [] OTHER -> -1

\* ------------------------------------------------------------ ShardHolder
NoShard == [present |-> FALSE, peers |-> [p \in PeerIds |-> NoReplica]]
ReplicaSet(f) == [present |-> TRUE, peers |-> f]
NoKeyEntry == [present |-> FALSE, ids |-> {}]

Holder == [rings |-> rings, resharding_state |-> resharding_state, shards |-> shards,
           shard_id_to_key_mapping |-> shard_id_to_key_mapping,
           key_mapping |-> key_mapping]

SetHolder(h) ==
    /\ rings' = h.rings
    /\ resharding_state' = h.resharding_state
    /\ shards' = h.shards
    /\ shard_id_to_key_mapping' = h.shard_id_to_key_mapping
    /\ key_mapping' = h.key_mapping

Ret(h, result) == [h |-> h, result |-> result]

contains_shard(h, shard_id) == h.shards[shard_id].present
shard_ids(h) == {s \in ShardIds : h.shards[s].present}
peers_of(shard) == {p \in PeerIds : shard.peers[p] # NoReplica}

\* get_ring: Ok iff the shard key has a hash ring.
has_ring(h, shard_key) == h.rings[shard_key].kind # "Absent"

\* SaveOnDisk::write applies the change to a copy, saves the copy and only then
\* replaces the value: a failed save leaves the value as it was.
FailPoints == {"none", "add_shard", "state_write", "cleanup", "remove_peer",
               "key_mapping", "drop_shard"}

\* The shard count check_start_resharding uses for direction Down.
shard_count(h, shard_key) ==
    IF shard_key # NoKey
    THEN (IF h.key_mapping[shard_key].present
          THEN Cardinality(h.key_mapping[shard_key].ids) ELSE 0)
    ELSE Cardinality(shard_ids(h))

check_start_resharding(h, key) ==
    IF ~has_ring(h, key.shard_key) THEN "BadRequest"
    ELSE IF h.resharding_state.present THEN "BadRequest"
    ELSE IF key.direction = "Down" /\ shard_count(h, key.shard_key) <= 1 THEN "BadRequest"
    ELSE IF key.direction = "Up" /\ contains_shard(h, key.shard_id) THEN "BadRequest"
    ELSE IF key.direction = "Down" /\ ~contains_shard(h, key.shard_id) THEN "BadRequest"
    ELSE "Ok"

\* ShardHolder::add_shard: insert the replica set, put the shard on the key's
\* ring, and for a custom key record it in both key mappings (the persisted
\* key_mapping first; its save may fail).
add_shard(h, shard_id, shard, shard_key, fail) ==
    LET h1 == [h EXCEPT !.shards[shard_id] = shard,
                        !.rings[shard_key] =
                            ring_add(IF @.kind = "Absent" THEN Single({}) ELSE @, shard_id)]
    IN  IF shard_key = NoKey THEN Ret(h1, "Ok")
        ELSE IF fail = "add_shard" THEN Ret(h1, "ServiceError")
        ELSE Ret([h1 EXCEPT !.key_mapping[shard_key] =
                                [present |-> TRUE, ids |-> @.ids \cup {shard_id}],
                            !.shard_id_to_key_mapping[shard_id] = shard_key], "Ok")

\* The replica set the caller creates for a resharding up: one replica, on the
\* resharding peer, in state Resharding.
new_shard_for(key) ==
    ReplicaSet([p \in PeerIds |-> IF p = key.peer_id THEN "Resharding" ELSE NoReplica])

start_resharding_unchecked(h, key, fail) ==
    IF ~has_ring(h, key.shard_key) THEN Ret(h, "BadRequest")
    ELSE
    LET h1 == [h EXCEPT !.rings[key.shard_key] =
                   ring_start_resharding(@, key.shard_id, key.direction)]
        added == IF key.direction = "Up"
                 THEN add_shard(h1, key.shard_id, new_shard_for(key), key.shard_key, fail)
                 ELSE Ret(h1, "Ok")
    IN  IF added.result # "Ok" THEN added
        ELSE IF fail = "state_write" THEN Ret(added.h, "ServiceError")
        ELSE Ret([added.h EXCEPT !.resharding_state = ReshardState_new(key)], "Ok")

\* A faulty variant of check_stage: every stage is accepted.
check_stage_any(state, stage) == "Ok"

check_stage(state, stage) == IF state.stage = stage THEN "Ok" ELSE "BadRequest"

\* A faulty variant of check_resharding: the key is not compared with the resharding
\* in progress.
check_resharding_any_key(h, key, stage) ==
    IF ~has_ring(h, key.shard_key) THEN "BadRequest"
    ELSE IF h.resharding_state.present THEN check_stage(h.resharding_state, stage)
    ELSE "BadRequest"

check_resharding(h, key, stage) ==
    IF ~has_ring(h, key.shard_key) THEN "BadRequest"
    ELSE IF matches(h.resharding_state, key) THEN check_stage(h.resharding_state, stage)
    ELSE "BadRequest"

commit_read_hashring(h, key, fail) ==
    LET checked == check_resharding(h, key, "MigratingPoints")
    IN  IF checked # "Ok" THEN Ret(h, checked)
        ELSE IF fail = "state_write" THEN Ret(h, "ServiceError")
        ELSE Ret([h EXCEPT !.resharding_state.stage = "ReadHashRingCommitted"], "Ok")

commit_write_hashring(h, key, fail) ==
    LET checked == check_resharding(h, key, "ReadHashRingCommitted")
        h1 == [h EXCEPT !.rings[key.shard_key] = ring_commit_resharding(@)]
    IN  IF checked # "Ok" THEN Ret(h, checked)
        ELSE IF fail = "state_write" THEN Ret(h1, "ServiceError")
        ELSE Ret([h1 EXCEPT !.resharding_state.stage = "WriteHashRingCommitted"], "Ok")

check_finish_resharding(h, key) == check_resharding(h, key, "WriteHashRingCommitted")

finish_resharding_unchecked(h, key, fail) ==
    IF fail = "state_write" THEN Ret(h, "ServiceError")
    ELSE Ret([h EXCEPT !.resharding_state = NoState], "Ok")

check_abort_resharding(h, key) ==
    IF ~h.resharding_state.present THEN "Ok"
    ELSE IF ~matches(h.resharding_state, key) THEN "Ok"
    ELSE IF StageRank(h.resharding_state.stage) < StageRank("ReadHashRingCommitted") THEN "Ok"
    ELSE "BadRequest"

\* ShardReplicaSet::peer_state, remove_peer, set_replica_state on a holder's shard.
peer_state(h, shard_id, peer_id) == h.shards[shard_id].peers[peer_id]
remove_peer(h, shard_id, peer_id) == [h EXCEPT !.shards[shard_id].peers[peer_id] = NoReplica]

\* The shards abort_resharding visits when it cleans up a resharding down.
cleanup_targets(h, key) ==
    {id \in shard_ids(h) : h.shard_id_to_key_mapping[id] = key.shard_key /\ id # key.shard_id}

\* Revert the replicas in state Resharding of the shards in `ids` to Active.
revert_resharding_replicas(h, ids) ==
    [h EXCEPT !.shards = [s \in ShardIds |->
        IF s \in ids
        THEN [@[s] EXCEPT !.peers = [p \in PeerIds |->
                 IF @[p] = "Resharding" THEN "Active" ELSE @[p]]]
        ELSE @[s]]]

\* drop_and_remove_shard: the replica set leaves the map, then its files are
\* removed (which may fail).
drop_and_remove_shard(h, shard_id) == [h EXCEPT !.shards[shard_id] = NoShard]

\* A faulty variant of peer_branch: a peer without a replica is rejected too.
peer_branch_reject_absent(ps, is_in_progress) ==
    IF ps = "Resharding" \/ (ps = "Dead" /\ is_in_progress) THEN "remove" ELSE "reject"

\* What abort_resharding does with the resharding peer's replica of the new
\* shard, by the replica's state: "remove" it, "reject" the call, or "skip".
peer_branch(ps, is_in_progress) ==
    IF ps = "Resharding" THEN "remove"
    ELSE IF ps = "Dead" /\ is_in_progress THEN "remove"
    ELSE IF ps # NoReplica THEN "reject"
    ELSE "skip"

\* The second half of abort_resharding: revert the ring, then for direction Up
\* take the resharding peer out of the new shard and drop the shard if that
\* leaves it without replicas.
abort_revert_and_remove(h, key, is_in_progress, fail) ==
    LET shard_id == key.shard_id
        h2 == IF has_ring(h, key.shard_key)
              THEN [h EXCEPT !.rings[key.shard_key] =
                        ring_abort_resharding(@, shard_id, key.direction)]
              ELSE h
        branch == peer_branch(peer_state(h2, shard_id, key.peer_id), is_in_progress)
        h3 == IF branch = "remove" THEN remove_peer(h2, shard_id, key.peer_id) ELSE h2
        writes_mapping == key.shard_key # NoKey /\ h3.key_mapping[key.shard_key].present
        h4 == IF writes_mapping
              THEN [h3 EXCEPT !.key_mapping[key.shard_key].ids = @ \ {shard_id}]
              ELSE h3
        h5 == drop_and_remove_shard(h4, shard_id)
        h6 == [h5 EXCEPT !.shard_id_to_key_mapping[shard_id] = NoKey]
    IN  IF key.direction # "Up" \/ ~contains_shard(h2, shard_id) THEN Ret(h2, "Ok")
        ELSE IF branch = "remove" /\ fail = "remove_peer" THEN Ret(h2, "ServiceError")
        ELSE IF branch = "reject" THEN Ret(h2, "BadRequest")
        ELSE IF peers_of(h3.shards[shard_id]) # {} THEN Ret(h3, "Ok")
        ELSE IF writes_mapping /\ fail = "key_mapping" THEN Ret(h3, "ServiceError")
        ELSE IF fail = "drop_shard" THEN Ret(h5, "ServiceError")
        ELSE Ret(h6, "Ok")

\* A faulty variant of abort_rejected: only a committed write hash ring blocks the abort.
abort_rejected_after_write(state, key, force) ==
    /\ matches(state, key)
    /\ ~force
    /\ StageRank(state.stage) > StageRank("ReadHashRingCommitted")

\* The first match of abort_resharding: the call is refused when the key's
\* resharding is in progress, is not forced and has committed the read hash ring.
abort_rejected(state, key, force) ==
    /\ matches(state, key)
    /\ ~force
    /\ StageRank(state.stage) >= StageRank("ReadHashRingCommitted")

\* `done` is the set of shards the clean-up loop of a resharding down had
\* finished when it failed (the map is iterated in no particular order).
abort_resharding(h, key, force, fail, done) ==
    LET state == h.resharding_state
        is_in_progress == matches(state, key)
        cleans == is_in_progress /\ key.direction = "Down"
        targets == cleanup_targets(h, key)
        h1 == IF cleans THEN revert_resharding_replicas(h, targets) ELSE h
        reverted == abort_revert_and_remove(h1, key, is_in_progress, fail)
    IN  IF abort_rejected(state, key, force) THEN Ret(h, "BadRequest")
        ELSE IF cleans /\ fail = "cleanup" /\ targets # {}
        THEN Ret(revert_resharding_replicas(h, done \cap targets), "ServiceError")
        ELSE IF reverted.result # "Ok" THEN reverted
        ELSE IF ~is_in_progress THEN reverted
        ELSE IF fail = "state_write" THEN Ret(reverted.h, "ServiceError")
        ELSE Ret([reverted.h EXCEPT !.resharding_state = NoState], "Ok")

\* ------------------------------------------------------------------ Init
\* The peer this holder runs on (replica_set.this_peer_id()).
ThisPeer == 1
\* A peer id that is not a peer of the cluster.
UnknownPeer == MaxPeerId + 1
NoMethod == "NoMethod"
ShardTransferMethods == {"StreamRecords", "Snapshot"}
ShardTransfers ==
    [shard_id : ShardIds, from : PeerIds \cup {UnknownPeer}, to : PeerIds \cup {UnknownPeer},
     sync : BOOLEAN, method : ShardTransferMethods \cup {NoMethod}]
NoTransfer == [shard_id |-> 0, from |-> 0, to |-> 0, sync |-> FALSE, method |-> NoMethod]
\* handle_transferred_shard_proxy: `pc` is where the call stands, `before` the
\* target peer's replica state when it was called.
Handling(pc, transfer, result, before) ==
    [pc |-> pc, transfer |-> transfer, result |-> result, before |-> before]
HandlerIdle == Handling("idle", NoTransfer, "-", NoReplica)

\* spawn_stoppable has returned: the worker is queued on the blocking pool, the
\* caller holds the handle.  `flag` is the `stopped` AtomicBool, `flag_alive`
\* whether its Arc still exists (the handle holds a Weak reference only),
\* `work` the steps the task function has done.
Spawned ==
    [handle |-> "held", worker |-> "queued", flag |-> FALSE, flag_alive |-> TRUE,
     started |-> FALSE, work |-> 0, stop_returned |-> "-"]
\* The steps a task function has to do before it returns by itself.
MaxWork == 2
\* on_drop has been called and its future not yet polled.  `cancelled` is the
\* CancellationToken, `guard` its DropGuard, `spawned` the task given to tokio.
OnDropCreated ==
    [pc |-> "created", cancelled |-> FALSE, guard |-> "none", spawned |-> "none"]

\* Points of a segment: external ids, payloads, and the payload fields.
MaxPointId == 2
MaxWrites == 3
PointIds == 1..MaxPointId
Payloads == {"a", "b"}
NoPoint == "-"
Fields == {"number"}
EmptySegment == [id \in PointIds |-> NoPoint]
\* A holder with one appendable segment S whose payload field is indexed, no
\* optimizer running.  `reference` is the data with the same writes applied
\* and no optimizer.
NoOptimizer ==
    [phase |-> "idle", S |-> EmptySegment, S_indexed |-> Fields,
     W |-> EmptySegment, W_indexed |-> {}, tombstones |-> {},
     Sp |-> EmptySegment, Sp_indexed |-> {}, copied |-> {},
     stop |-> FALSE, writes |-> 0, during |-> {}, reference |-> EmptySegment]

\* The points of a graph, its levels, the fan-outs m (levels above 0) and m0
\* (level 0) and the threads of the build.
NumPoints == 4
MaxLevel == 1
m == 1
m0 == 2
NumWorkers == 2
PointOffsets == 1..NumPoints
Levels == 0..MaxLevel
Workers == 1..NumWorkers
NoPointOffset == 0
NoEntryPoint == [point_id |-> NoPointOffset, level |-> 0]
WorkerIdle ==
    [pc |-> "idle", point_id |-> NoPointOffset, curr_level |-> 0,
     level_entry |-> NoPointOffset, entry_level |-> 0, visited |-> {},
     candidates |-> {}, nearest |-> <<>>, next |-> 1]
\* No builder yet.
NoGraph ==
    [phase |-> "new", use_heuristic |-> FALSE,
     level |-> [p \in PointOffsets |-> 0],
     links_layers |-> [p \in PointOffsets |-> [l \in Levels |-> <<>>]],
     entry_points |-> NoEntryPoint, started |-> {}, linked |-> {},
     overlapped |-> FALSE,
     worker |-> [w \in Workers |-> WorkerIdle]]

\* Versions the callers of a segment pass (SeqNumberType), vectors, and a
\* point without payload.
MaxOpNum == 2
OpNums == 0..MaxOpNum
Vectors == {"v1", "v2"}
NoPayload == "none"
\* An id the segment has no point for.
NoRecord == [version |-> -1, vector |-> "-", payload |-> "-"]
NoPoints == [id \in PointIds |-> NoRecord]
\* build_segment: an empty segment; `last` is the last call and what it did.
NoSegCall == [op |-> "-", op_num |-> 0, id |-> 0, stored |-> -1, changed |-> FALSE]
NewSegment == [points |-> NoPoints, last |-> NoSegCall]
\* A collection of one segment: `wal` are the acknowledged operations, `disk`
\* the segment as last flushed, `closed` what was retrievable at the last close.
MaxOps == 3
NewCollection ==
    [open |-> TRUE, wal |-> <<>>, points |-> NoPoints, disk |-> NoPoints,
     closed |-> NoPoints, fresh |-> FALSE, count_before |-> 0, again |-> FALSE]
\* No call of such a function has been made yet.
NoFnCall == [op |-> "-"]

\* An IndexingOptimizer that has no holder yet.
NoIndexing ==
    [phase |-> "new", segments |-> <<>>, thresholds_config |-> <<>>, suggested |-> <<>>,
     seeded |-> 0, runs |-> 0, produced |-> {}, fresh |-> {}, reselected |-> FALSE]

\* The names of collections and aliases, and the longest list of alias actions.
TocNames == {"n1", "n2"}
MaxActions == 2
\* No name, no task, no call.
NoName == "-"
NoTask == "-"
ClientIdle == [op |-> "-", pc |-> "-", waiting |-> FALSE, name |-> NoName, resolved |-> NoName]
MetaIdle ==
    [pc |-> "-", waiting |-> FALSE, actions |-> <<>>, next |-> 1,
     before |-> [a \in TocNames |-> NoName]]
\* TableOfContent::new on an empty storage directory: no collection, no alias,
\* the lock free.
NewToc ==
    [collections |-> {},
     aliases |-> [a \in TocNames |-> NoName],
     readers |-> 0,
     writer |-> NoTask,
     queue |-> <<>>,
     client |-> ClientIdle,
     meta |-> MetaIdle,
     observed_mid |-> FALSE]

\* The point offsets and token ids of the full-text index, and the number of
\* calls on one index.
MaxIdx == 2
MaxTokenId == 2
MaxIndexCalls == 4
Idxs == 0..MaxIdx
TokenIds == 1..MaxTokenId
\* A key of point_to_docs that was never put.
NoDocKey == [put |-> FALSE, tokens |-> {}]
\* The value that put stores for a list of tokens.
put_tokens(tokens) == [put |-> TRUE, tokens |-> tokens]
\* InvertedIndexOnDisk::new and recreate: no document, no posting.
NewInvertedIndex ==
    [points_count |-> 0,
     point_to_docs |-> [idx \in Idxs |-> NoDocKey],
     postings |-> [t \in TokenIds |-> <<>>],
     calls |-> 0,
     last |-> [op |-> "-", idx |-> 0, result |-> "-", indexed |-> FALSE,
               count_before |-> 0, docs_before |-> [idx \in Idxs |-> NoDocKey]]]
RETRY_TIMEOUT == 1
MAX_RETRY_COUNT == 3
\* The number of batches the source shard is streamed in.
SourceBatches == 3
\* The task of spawn_transfer_task.  Locals of the code: `tries`, `finished`,
\* `offset` (batches sent by the running transfer_batches), `result` (what the
\* last transfer_shard attempt returned).  What the task did: `attempts`
\* started, `oks` and `errs` attempts that returned Ok or an error other than
\* Cancelled, `seen_stop` (an attempt returned Cancelled or the task read the
\* flag set), `after_seen` attempts started after that, `waits` the sleeps in
\* order, `on_finish` and `on_error` ran, `ret` the task's result, `rpcs_stopped`
\* remote requests and `batches_stopped` batches issued with the flag set.
TaskIdle ==
    [pc |-> "idle", transfer |-> NoTransfer, tries |-> 0, finished |-> FALSE, offset |-> 0,
     result |-> "-", attempts |-> 0, oks |-> 0, errs |-> 0, seen_stop |-> FALSE,
     after_seen |-> 0, waits |-> <<>>, on_finish |-> FALSE, on_error |-> FALSE, ret |-> "-",
     rpcs_stopped |-> 0, batches_stopped |-> 0]
\* `at`: the stage the call found the resharding of its key at ("-": the key
\* was not the key of a resharding in progress); `direction`: the key's direction.
NoCall == [op |-> "none", result |-> "-", at |-> "-", direction |-> "-"]
StageAt(state, key) == IF matches(state, key) THEN state.stage ELSE "-"

Call(op, result, at, direction) ==
    [op |-> op, result |-> result, at |-> at, direction |-> direction]

\* The shards a collection is created with: shards 1 and 2, replicated on the
\* known peers.
InitialShards ==
    [s \in ShardIds |->
        IF s = 1 THEN ReplicaSet([p \in PeerIds |-> IF p = 1 THEN "Active" ELSE NoReplica])
        ELSE IF s = 2 THEN ReplicaSet([p \in PeerIds |-> IF p <= 2 THEN "Active" ELSE NoReplica])
        ELSE NoShard]

\* A collection with automatic sharding: every shard belongs to the default key.
InitAuto ==
    /\ rings = [k \in ShardKeys |-> IF k = NoKey THEN Single({1, 2}) ELSE NoRing]
    /\ shard_id_to_key_mapping = [s \in ShardIds |-> NoKey]
    /\ key_mapping = [k \in CustomKeys |-> NoKeyEntry]

\* A collection with custom sharding: the shards belong to the custom key; the
\* default key's ring exists and is empty.
InitCustom ==
    /\ rings = [k \in ShardKeys |-> IF k = NoKey THEN Single({}) ELSE Single({1, 2})]
    /\ shard_id_to_key_mapping = [s \in ShardIds |-> IF s \in {1, 2} THEN "k1" ELSE NoKey]
    /\ key_mapping = [k \in CustomKeys |-> [present |-> TRUE, ids |-> {1, 2}]]

InitHolder ==
    /\ shards = InitialShards
    /\ resharding_state = NoState
    /\ (InitAuto \/ InitCustom)
    /\ last = NoCall
    /\ ext_changes = 0
    /\ started = 0
    /\ failures = 0
    /\ shard_transfers = {}
    /\ proxied = {}
    /\ handler = HandlerIdle
    /\ task = TaskIdle
    /\ stopped = FALSE
    /\ stoppable = Spawned
    /\ drop_future = OnDropCreated
    /\ opt = NoOptimizer
    /\ hnsw = NoGraph
    /\ fn_call = NoFnCall
    /\ segment = NewSegment
    /\ coll = NewCollection
    /\ inverted_index = NewInvertedIndex
    /\ toc = NewToc
    /\ indexing = NoIndexing

\* --------------------------------------------------------------- actions
\* A call returns: the holder is as the call left it.  A call that is to fail
\* at a place it does not pass is the same call as one that is not to fail.
Returns(r, op, key, fail) ==
    /\ (fail # "none" => r.result = "ServiceError" /\ failures < MaxFailures)
    /\ SetHolder(r.h)
    /\ last' = Call(op, r.result, StageAt(resharding_state, key), key.direction)
    /\ failures' = IF fail # "none" THEN failures + 1 ELSE failures
    /\ UNCHANGED <<ext_changes, transferVars, taskVars, cancelVars, segVars, hnswVars, fnVars, storeVars, iidxVars, tocVars, indexingVars>>

\* start_resharding_unchecked is called after check_start_resharding accepted the key.
StartResharding ==
    \E key \in ReshardKeys, fail \in {"none", "add_shard", "state_write"} :
        /\ started < MaxReshardings
        /\ check_start_resharding(Holder, key) = "Ok"
        /\ Returns(start_resharding_unchecked(Holder, key, fail),
                   "start_resharding_unchecked", key, fail)
        /\ started' = started + 1

CommitReadHashring ==
    \E key \in ReshardKeys, fail \in {"none", "state_write"} :
        /\ Returns(commit_read_hashring(Holder, key, fail), "commit_read_hashring", key, fail)
        /\ UNCHANGED started

CommitWriteHashring ==
    \E key \in ReshardKeys, fail \in {"none", "state_write"} :
        /\ Returns(commit_write_hashring(Holder, key, fail), "commit_write_hashring", key, fail)
        /\ UNCHANGED started

\* finish_resharding_unchecked is called after check_finish_resharding accepted the key.
FinishResharding ==
    \E key \in ReshardKeys, fail \in {"none", "state_write"} :
        /\ check_finish_resharding(Holder, key) = "Ok"
        /\ Returns(finish_resharding_unchecked(Holder, key, fail),
                   "finish_resharding_unchecked", key, fail)
        /\ UNCHANGED started

\* `force` is read only when the key matches the resharding in progress.
AbortResharding ==
    \E key \in ReshardKeys,
       fail \in {"none", "cleanup", "remove_peer", "key_mapping", "drop_shard", "state_write"} :
        \E force \in IF matches(resharding_state, key) THEN BOOLEAN ELSE {FALSE},
           done \in IF fail = "cleanup" THEN SUBSET cleanup_targets(Holder, key) ELSE {{}} :
            /\ Returns(abort_resharding(Holder, key, force, fail, done), "abort_resharding", key,
                       fail)
            /\ UNCHANGED started

\* While a resharding is in progress other operations of the collection change
\* the replicas that take part in it: the target shard gains, loses or changes
\* replicas, and for a resharding down a replica of another shard of the key is
\* put into state Resharding.
ExternalReplicaChange ==
    \E s \in ShardIds, p \in PeerIds, st \in ReplicaStates \cup {NoReplica} :
        /\ ext_changes < MaxExternalChanges
        /\ resharding_state.present
        /\ shards[s].present
        /\ shards[s].peers[p] # st
        /\ \/ s = resharding_state.shard_id
           \/ /\ resharding_state.direction = "Down"
              /\ shard_id_to_key_mapping[s] = resharding_state.shard_key
              /\ shards[s].peers[p] = "Active"
              /\ st = "Resharding"
        /\ shards' = [shards EXCEPT ![s].peers[p] = st]
        /\ ext_changes' = ext_changes + 1
        /\ last' = Call("external", "-", "-", "-")
        /\ UNCHANGED <<rings, resharding_state, shard_id_to_key_mapping, key_mapping,
                       started, failures, transferVars, taskVars, cancelVars, segVars, hnswVars, fnVars, storeVars, iidxVars, tocVars, indexingVars>>

NextReshard ==
    \/ StartResharding
    \/ CommitReadHashring
    \/ CommitWriteHashring
    \/ FinishResharding
    \/ AbortResharding
    \/ ExternalReplicaChange

\* ------------------------------------------------------- shard transfers
\* check_transfer_conflicts: the active transfers of the same shard that share
\* a peer with `transfer`; the code returns the first of them, None if there is none.
check_transfer_conflicts(transfer, current_transfers) ==
    {t \in current_transfers :
        /\ t.shard_id = transfer.shard_id
        /\ \/ t.from = transfer.from
           \/ t.to = transfer.from
           \/ t.from = transfer.to
           \/ t.to = transfer.to}

\* check_transfer_conflicts_strict: the same over the transfers of every shard.
check_transfer_conflicts_strict(transfer, current_transfers) ==
    {t \in current_transfers :
        \/ t.from = transfer.from
        \/ t.to = transfer.from
        \/ t.from = transfer.to
        \/ t.to = transfer.to}

\* validate_transfer; `shard_state` is the shard's replica set, NoShard for None.
validate_transfer(transfer, all_peers, shard_state, current_transfers) ==
    IF ~shard_state.present THEN "ServiceError"
    ELSE IF transfer.from \notin all_peers THEN "BadRequest"
    ELSE IF transfer.to \notin all_peers THEN "BadRequest"
    ELSE IF shard_state.peers[transfer.from] # "Active" THEN "BadRequest"
    ELSE IF check_transfer_conflicts(transfer, current_transfers) # {} THEN "BadRequest"
    ELSE "Ok"

add_remote(replica_sets, shard_id, peer_id, state) ==
    [replica_sets EXCEPT ![shard_id].peers[peer_id] = state]
remove_remote(replica_sets, shard_id, peer_id) ==
    [replica_sets EXCEPT ![shard_id].peers[peer_id] = NoReplica]
remove_local(replica_sets, shard_id) ==
    [replica_sets EXCEPT ![shard_id].peers[ThisPeer] = NoReplica]

\* change_remote_shard_route; `fail` names the replica set call that fails.
change_remote_shard_route(replica_sets, shard_id, old_peer_id, new_peer_id, sync, fail) ==
    LET added == IF ThisPeer # new_peer_id
                 THEN add_remote(replica_sets, shard_id, new_peer_id, "Active")
                 ELSE replica_sets
    IN  IF ~replica_sets[shard_id].present THEN [shards |-> replica_sets, result |-> "Ok(false)"]
        ELSE IF ThisPeer # new_peer_id /\ fail = "add_remote"
        THEN [shards |-> replica_sets, result |-> "Err"]
        ELSE IF sync THEN [shards |-> added, result |-> "Ok(true)"]
        ELSE IF fail = "remove_remote" THEN [shards |-> added, result |-> "Err"]
        ELSE [shards |-> remove_remote(added, shard_id, old_peer_id), result |-> "Ok(true)"]

TransferFrame == UNCHANGED <<rings, resharding_state, shard_id_to_key_mapping, key_mapping,
                             last, ext_changes, started, taskVars, cancelVars, segVars, hnswVars, fnVars, storeVars, iidxVars, tocVars, indexingVars>>

\* A transfer becomes active once validate_transfer has accepted it against
\* the active transfers.
StartTransfer ==
    \E t \in ShardTransfers :
        /\ validate_transfer(t, PeerIds, shards[t.shard_id], shard_transfers) = "Ok"
        /\ shard_transfers' = shard_transfers \cup {t}
        /\ UNCHANGED <<shards, proxied, handler, failures>>
        /\ TransferFrame

\* transfer_shard on the source peer: the local shard is wrapped in a proxy (a
\* forward proxy, or a queue proxy for a snapshot transfer).
ProxifyLocal ==
    \E t \in shard_transfers :
        /\ t.from = ThisPeer
        /\ t.shard_id \notin proxied
        /\ proxied' = proxied \cup {t.shard_id}
        /\ UNCHANGED <<shards, shard_transfers, handler, failures>>
        /\ TransferFrame

\* handle_transferred_shard_proxy up to its first await: add_remote.
HandleAddRemote ==
    \E t \in shard_transfers, fail \in BOOLEAN :
        /\ handler.pc = "idle"
        /\ t.from = ThisPeer
        /\ t.shard_id \in proxied
        /\ fail => failures < MaxFailures
        /\ failures' = IF fail THEN failures + 1 ELSE failures
        /\ IF ~shards[t.shard_id].present
           THEN /\ handler' = Handling("returned", t, "Ok(false)", NoReplica)
                /\ UNCHANGED shards
           ELSE IF fail
           THEN /\ handler' = Handling("returned", t, "Err", shards[t.shard_id].peers[t.to])
                /\ UNCHANGED shards
           ELSE /\ handler' = Handling("added", t, "-", shards[t.shard_id].peers[t.to])
                /\ shards' = add_remote(shards, t.shard_id, t.to, "Active")
        /\ UNCHANGED <<shard_transfers, proxied>>
        /\ TransferFrame

\* handle_transferred_shard_proxy from add_remote on: un_proxify_local or remove_local.
HandleLocal ==
    \E fail \in BOOLEAN :
        /\ handler.pc = "added"
        /\ fail => failures < MaxFailures
        /\ failures' = IF fail THEN failures + 1 ELSE failures
        /\ IF fail
           THEN /\ handler' = [handler EXCEPT !.pc = "returned", !.result = "Err"]
                /\ UNCHANGED <<shards, proxied>>
           ELSE /\ handler' = [handler EXCEPT !.pc = "returned", !.result = "Ok(true)"]
                /\ proxied' = proxied \ {handler.transfer.shard_id}
                /\ shards' = IF handler.transfer.sync THEN shards
                             ELSE remove_local(shards, handler.transfer.shard_id)
        /\ UNCHANGED shard_transfers
        /\ TransferFrame

\* The caller of handle_transferred_shard_proxy ends the transfer: finished if
\* the handler returned Ok, aborted (revert_proxy_shard_to_local) if it failed.
EndTransfer ==
    /\ handler.pc = "returned"
    /\ shard_transfers' = shard_transfers \ {handler.transfer}
    /\ proxied' = proxied \ {handler.transfer.shard_id}
    /\ handler' = HandlerIdle
    /\ UNCHANGED <<shards, failures>>
    /\ TransferFrame

\* A transfer whose source is another peer finishes: change_remote_shard_route.
ChangeRemoteShardRoute ==
    \E t \in shard_transfers, fail \in {"none", "add_remote", "remove_remote"} :
        LET r == change_remote_shard_route(shards, t.shard_id, t.from, t.to, t.sync, fail)
        IN  /\ t.from # ThisPeer
            /\ fail # "none" => (r.result = "Err" /\ failures < MaxFailures)
            /\ failures' = IF fail # "none" THEN failures + 1 ELSE failures
            /\ shards' = r.shards
            /\ shard_transfers' = shard_transfers \ {t}
            /\ UNCHANGED <<proxied, handler>>
            /\ TransferFrame

NextTransfer ==
    \/ StartTransfer
    \/ ProxifyLocal
    \/ HandleAddRemote
    \/ HandleLocal
    \/ EndTransfer
    \/ ChangeRemoteShardRoute

\* ------------------------------------------------------ the transfer task
\* A remote request of the task: counted if the stop flag is set when it is issued.
RemoteCall(t) == [t EXCEPT !.rpcs_stopped = @ + (IF stopped THEN 1 ELSE 0)]
\* The attempt returns `result` to spawn_transfer_task.
AttemptReturns(t, result) == [t EXCEPT !.pc = "result", !.result = result]

\* The loop condition of spawn_transfer_task.
keeps_trying(finished, tries) == ~finished /\ tries > 0

\* What spawn_transfer_task does with the result of an attempt and the stop
\* flag it reads after it: "return" false, go on as "finished", or "retry".
after_attempt(result, flag) ==
    IF result = "Cancelled" THEN "return"
    ELSE IF flag THEN "return"
    ELSE IF result = "Ok" THEN "finished"
    ELSE "retry"

\* A faulty variant of retry_timeout: the same timeout after every attempt.
retry_timeout_constant(tries) == RETRY_TIMEOUT
\* The sleep before the next attempt, `tries` being the tries left.
retry_timeout(tries) == RETRY_TIMEOUT * (MAX_RETRY_COUNT - tries)

\* A faulty variant of callback: on_finish whatever the attempts returned.
callback_always_finish(finished) == "on_finish"
\* The callback spawn_transfer_task awaits after the loop.
callback(finished) == IF finished THEN "on_finish" ELSE "on_error"

\* A faulty variant of batch_cancelled: the flag is read before the first batch only.
batch_cancelled_first_only(flag, offset) == flag /\ offset = 0
\* transfer_batches before a batch: the transfer is cancelled if the flag is set.
batch_cancelled(flag, offset) == flag

\* A faulty variant of revert_proxy_shard_to_local: the proxy stays.
revert_proxy_keeps_proxy(proxy_set, replica_sets, shard_id) == proxy_set
\* revert_proxy_shard_to_local: un_proxify_local on the shard's replica set.
revert_proxy_shard_to_local(proxy_set, replica_sets, shard_id) ==
    IF ~replica_sets[shard_id].present THEN proxy_set ELSE proxy_set \ {shard_id}

TaskFrame == UNCHANGED <<rings, resharding_state, shard_id_to_key_mapping, key_mapping,
                         last, ext_changes, started, failures, handler, cancelVars, segVars, hnswVars, fnVars, storeVars, iidxVars, tocVars, indexingVars>>

\* spawn_transfer_task for a transfer from this peer to another peer that
\* validate_transfer has accepted.
SpawnTransferTask ==
    \E t \in ShardTransfers :
        /\ task.pc = "idle"
        /\ t.from = ThisPeer
        /\ t.to # ThisPeer
        /\ validate_transfer(t, PeerIds, shards[t.shard_id], shard_transfers) = "Ok"
        /\ shard_transfers' = shard_transfers \cup {t}
        /\ task' = [TaskIdle EXCEPT !.pc = "loop", !.transfer = t, !.tries = MAX_RETRY_COUNT]
        /\ UNCHANGED <<shards, proxied, stopped>>
        /\ TaskFrame

\* The head of the retry loop: the next attempt starts, or the loop is left.
TaskLoop ==
    /\ task.pc = "loop"
    /\ task' = IF keeps_trying(task.finished, task.tries)
               THEN [task EXCEPT !.pc = "initiate", !.offset = 0, !.result = "-",
                                 !.attempts = @ + 1,
                                 !.after_seen = @ + (IF task.seen_stop THEN 1 ELSE 0)]
               ELSE [task EXCEPT !.pc = "callback"]
    /\ UNCHANGED <<shards, proxied, shard_transfers, stopped>>
    /\ TaskFrame

\* transfer_shard: remote_shard.initiate_transfer().
TaskInitiate ==
    \E fail \in BOOLEAN :
        /\ task.pc = "initiate"
        /\ task' = IF fail THEN AttemptReturns(RemoteCall(task), "Err")
                   ELSE [RemoteCall(task) EXCEPT !.pc = "proxify"]
        /\ UNCHANGED <<shards, proxied, shard_transfers, stopped>>
        /\ TaskFrame

\* transfer_shard: the local shard is proxied (forward proxy, or queue proxy
\* for a snapshot transfer), then the method is selected.
TaskProxify ==
    \E fail \in BOOLEAN :
        /\ task.pc = "proxify"
        /\ IF ~shards[task.transfer.shard_id].present \/ fail
           THEN /\ task' = AttemptReturns(RemoteCall(task), "Err")
                /\ UNCHANGED proxied
           ELSE /\ proxied' = proxied \cup {task.transfer.shard_id}
                /\ task' = [RemoteCall(task) EXCEPT !.pc =
                               IF task.transfer.method = NoMethod THEN "panicked"
                               ELSE IF task.transfer.method = "StreamRecords" THEN "indexes"
                               ELSE "http_port"]
        /\ UNCHANGED <<shards, shard_transfers, stopped>>
        /\ TaskFrame

\* transfer_batches: replica_set.transfer_indexes().
TaskTransferIndexes ==
    \E fail \in BOOLEAN :
        /\ task.pc = "indexes"
        /\ task' = IF ~shards[task.transfer.shard_id].present \/ fail
                   THEN AttemptReturns(RemoteCall(task), "Err")
                   ELSE [RemoteCall(task) EXCEPT !.pc = "check"]
        /\ UNCHANGED <<shards, proxied, shard_transfers, stopped>>
        /\ TaskFrame

\* transfer_batches: the stop flag is read at the head of the batch loop.
TaskBatchCheck ==
    /\ task.pc = "check"
    /\ task' = IF batch_cancelled(stopped, task.offset)
               THEN AttemptReturns(task, "Cancelled")
               ELSE [task EXCEPT !.pc = "batch"]
    /\ UNCHANGED <<shards, proxied, shard_transfers, stopped>>
    /\ TaskFrame

\* transfer_batches: replica_set.transfer_batch(offset, TRANSFER_BATCH_SIZE);
\* the source reports no next offset after its last batch.
TaskTransferBatch ==
    \E fail \in BOOLEAN :
        LET sent == [RemoteCall(task) EXCEPT
                        !.offset = @ + 1,
                        !.batches_stopped = @ + (IF stopped THEN 1 ELSE 0)]
        IN  /\ task.pc = "batch"
            /\ task' = IF ~shards[task.transfer.shard_id].present \/ fail
                       THEN AttemptReturns(RemoteCall(task), "Err")
                       ELSE IF sent.offset >= SourceBatches THEN AttemptReturns(sent, "Ok")
                       ELSE [sent EXCEPT !.pc = "check"]
            /\ UNCHANGED <<shards, proxied, shard_transfers, stopped>>
            /\ TaskFrame

\* transfer_shard, snapshot method: remote_shard.request_http_port().
TaskRequestHttpPort ==
    \E fail \in BOOLEAN :
        /\ task.pc = "http_port"
        /\ task' = IF fail THEN AttemptReturns(RemoteCall(task), "Err")
                   ELSE [RemoteCall(task) EXCEPT !.pc = "snapshot"]
        /\ UNCHANGED <<shards, proxied, shard_transfers, stopped>>
        /\ TaskFrame

\* transfer_snapshot: the queue proxy is checked and the shard snapshot created.
TaskCreateSnapshot ==
    \E fail \in BOOLEAN :
        /\ task.pc = "snapshot"
        /\ task' = IF task.transfer.shard_id \notin proxied \/ fail
                   THEN AttemptReturns(task, "Err")
                   ELSE [task EXCEPT !.pc = "recover"]
        /\ UNCHANGED <<shards, proxied, shard_transfers, stopped>>
        /\ TaskFrame

\* transfer_snapshot: the remote is told to recover the snapshot; the task
\* then panics (a failed request, or the todo!() after it).
TaskRecoverRequest ==
    /\ task.pc = "recover"
    /\ task' = [RemoteCall(task) EXCEPT !.pc = "panicked"]
    /\ UNCHANGED <<shards, proxied, shard_transfers, stopped>>
    /\ TaskFrame

\* spawn_transfer_task after an attempt: the result is matched, the stop flag
\* read, and a failed attempt is followed by a sleep.
TaskAfterAttempt ==
    LET what == after_attempt(task.result, stopped)
        counted == [task EXCEPT !.oks = @ + (IF task.result = "Ok" THEN 1 ELSE 0),
                                !.errs = @ + (IF task.result = "Err" THEN 1 ELSE 0)]
    IN  /\ task.pc = "result"
        /\ task' = IF what = "return"
                   THEN [counted EXCEPT !.pc = "returned", !.ret = "false", !.seen_stop = TRUE,
                                        !.finished = (task.result = "Ok")]
                   ELSE IF what = "finished"
                   THEN [counted EXCEPT !.pc = "loop", !.finished = TRUE]
                   ELSE [counted EXCEPT !.pc = "sleep", !.tries = @ - 1,
                                        !.waits = Append(@, retry_timeout(task.tries - 1))]
        /\ UNCHANGED <<shards, proxied, shard_transfers, stopped>>
        /\ TaskFrame

\* sleep(exp_timeout) is over.
TaskSleep ==
    /\ task.pc = "sleep"
    /\ task' = [task EXCEPT !.pc = "loop"]
    /\ UNCHANGED <<shards, proxied, shard_transfers, stopped>>
    /\ TaskFrame

\* After the loop: on_finish or on_error is awaited and `finished` returned.
TaskCallback ==
    /\ task.pc = "callback"
    /\ task' = [task EXCEPT !.pc = "returned",
                            !.ret = (IF task.finished THEN "true" ELSE "false"),
                            !.on_finish = (callback(task.finished) = "on_finish"),
                            !.on_error = (callback(task.finished) = "on_error")]
    /\ UNCHANGED <<shards, proxied, shard_transfers, stopped>>
    /\ TaskFrame

\* The task is asked to stop while it runs.
AskToStop ==
    /\ task.pc \notin {"idle", "returned", "panicked", "cleaned"}
    /\ ~stopped
    /\ stopped' = TRUE
    /\ UNCHANGED <<shards, proxied, shard_transfers, task>>
    /\ TaskFrame

\* The transfer of a stopped task is aborted: the proxy is reverted and the
\* target's replica removed.
AbortTransfer ==
    /\ task.pc \in {"returned", "panicked"}
    /\ stopped
    /\ proxied' = revert_proxy_shard_to_local(proxied, shards, task.transfer.shard_id)
    /\ shards' = remove_remote(shards, task.transfer.shard_id, task.transfer.to)
    /\ shard_transfers' = shard_transfers \ {task.transfer}
    /\ task' = [task EXCEPT !.pc = "cleaned"]
    /\ UNCHANGED stopped
    /\ TaskFrame

NextTask ==
    \/ SpawnTransferTask
    \/ TaskLoop
    \/ TaskInitiate
    \/ TaskProxify
    \/ TaskTransferIndexes
    \/ TaskBatchCheck
    \/ TaskTransferBatch
    \/ TaskRequestHttpPort
    \/ TaskCreateSnapshot
    \/ TaskRecoverRequest
    \/ TaskAfterAttempt
    \/ TaskSleep
    \/ TaskCallback
    \/ AskToStop
    \/ AbortTransfer

\* ------------------------------------------- stoppable tasks, on_drop
CancelFrame == UNCHANGED <<reshardVars, transferVars, taskVars, segVars, hnswVars, fnVars, storeVars, iidxVars, tocVars, indexingVars>>

\* spawn_stoppable, the worker: the stop flag is read; a task that was asked to
\* stop before does not run.
WorkerCheck ==
    /\ stoppable.worker = "queued"
    /\ stoppable' = IF stoppable.flag
                    THEN [stoppable EXCEPT !.worker = "skipped", !.flag_alive = FALSE]
                    ELSE [stoppable EXCEPT !.worker = "checked"]
    /\ UNCHANGED drop_future
    /\ CancelFrame

\* spawn_stoppable, the worker: started.store(true), then the task function is called.
WorkerStart ==
    /\ stoppable.worker = "checked"
    /\ stoppable' = [stoppable EXCEPT !.worker = "running", !.started = TRUE]
    /\ UNCHANGED drop_future
    /\ CancelFrame

\* The task function does a step of its work.
WorkerStep ==
    /\ stoppable.worker = "running"
    /\ stoppable.work < MaxWork
    /\ ~stoppable.flag
    /\ stoppable' = [stoppable EXCEPT !.work = @ + 1]
    /\ UNCHANGED drop_future
    /\ CancelFrame

\* The task function returns, its work done or the flag seen set; the worker's
\* Arc of the flag is dropped.
WorkerFinish ==
    /\ stoppable.worker = "running"
    /\ stoppable.work = MaxWork \/ stoppable.flag
    /\ stoppable' = [stoppable EXCEPT !.worker = "finished", !.flag_alive = FALSE]
    /\ UNCHANGED drop_future
    /\ CancelFrame

\* StoppableTaskHandle::ask_to_stop: the flag is set if it still exists.
ask_to_stop(st) == IF st.flag_alive THEN [st EXCEPT !.flag = TRUE] ELSE st

HandleAskToStop ==
    /\ stoppable.handle = "held"
    /\ ~stoppable.flag
    /\ stoppable.flag_alive
    /\ stoppable' = ask_to_stop(stoppable)
    /\ UNCHANGED drop_future
    /\ CancelFrame

\* StoppableTaskHandle::stop: ask_to_stop ...
HandleStop ==
    /\ stoppable.handle = "held"
    /\ stoppable' = [ask_to_stop(stoppable) EXCEPT !.handle = "stopping"]
    /\ UNCHANGED drop_future
    /\ CancelFrame

\* ... then is_started().then_some(join_handle).
HandleStopReturns ==
    /\ stoppable.handle = "stopping"
    /\ stoppable' = [stoppable EXCEPT
                        !.handle = "stopped",
                        !.stop_returned = IF stoppable.started THEN "Some" ELSE "None"]
    /\ UNCHANGED drop_future
    /\ CancelFrame

\* The handle is dropped: StoppableTaskHandle has no Drop; its JoinHandle
\* detaches the task and its Weak reference goes away.
HandleDrop ==
    /\ stoppable.handle = "held"
    /\ stoppable' = [stoppable EXCEPT !.handle = "dropped"]
    /\ UNCHANGED drop_future
    /\ CancelFrame

\* on_drop up to its await: the token is created, its child handed to the
\* task, the drop guard armed and the task's future spawned.
OnDropPoll ==
    /\ drop_future.pc = "created"
    /\ drop_future' = [drop_future EXCEPT !.pc = "awaiting", !.guard = "armed",
                                          !.spawned = "running"]
    /\ UNCHANGED stoppable
    /\ CancelFrame

\* The spawned task completes, or panics.
SpawnedCompletes ==
    \E how \in {"completed", "panicked"} :
        /\ drop_future.spawned = "running"
        /\ drop_future' = [drop_future EXCEPT !.spawned = how]
        /\ UNCHANGED stoppable
        /\ CancelFrame

\* on_drop after its await: a join error returns through `?` and drops the
\* armed guard; otherwise the guard is disarmed.
OnDropReturns ==
    /\ drop_future.pc = "awaiting"
    /\ drop_future.spawned \in {"completed", "panicked"}
    /\ drop_future' = IF drop_future.spawned = "panicked"
                      THEN [drop_future EXCEPT !.pc = "returned", !.guard = "dropped",
                                               !.cancelled = TRUE]
                      ELSE [drop_future EXCEPT !.pc = "returned", !.guard = "disarmed"]
    /\ UNCHANGED stoppable
    /\ CancelFrame

\* The future of on_drop is dropped before it returned: an armed guard
\* cancels the token.
OnDropDropped ==
    /\ drop_future.pc \in {"created", "awaiting"}
    /\ drop_future' = [drop_future EXCEPT
                          !.pc = "dropped",
                          !.cancelled = (drop_future.guard = "armed"),
                          !.guard = IF drop_future.guard = "armed" THEN "dropped" ELSE @]
    /\ UNCHANGED stoppable
    /\ CancelFrame

NextCancel ==
    \/ WorkerCheck
    \/ WorkerStart
    \/ WorkerStep
    \/ WorkerFinish
    \/ HandleAskToStop
    \/ HandleStop
    \/ HandleStopReturns
    \/ HandleDrop
    \/ OnDropPoll
    \/ SpawnedCompletes
    \/ OnDropReturns
    \/ OnDropDropped

\* ------------------------------------------------- optimizer protocol
SegFrame == UNCHANGED <<reshardVars, transferVars, taskVars, cancelVars, hnswVars, fnVars, storeVars, iidxVars, tocVars, indexingVars>>

\* The points of a segment that are not NoPoint.
live_ids(seg) == {id \in PointIds : seg[id] # NoPoint}

\* A faulty variant of apply_tombstones: the tombstones are forgotten.
apply_no_tombstones(seg, tombstones) == seg

\* The deletes recorded in the tombstone set applied to a segment.
apply_tombstones(seg, tombstones) ==
    [id \in PointIds |-> IF id \in tombstones THEN NoPoint ELSE seg[id]]

\* Two segments of a holder read together: the copy in the appendable segment
\* is the newer version of a point.
read_two(seg, W) == [id \in PointIds |-> IF W[id] # NoPoint THEN W[id] ELSE seg[id]]

\* What a read of the holder sees.
read_holder(o) ==
    CASE o.phase = "idle" -> o.S
      [] o.phase \in {"proxied", "built"} -> read_two(apply_tombstones(o.S, o.tombstones), o.W)
      [] o.phase = "swapped" -> read_two(o.Sp, o.W)
      [] o.phase = "unwrapped" -> read_two(o.S, o.W)

\* The indexed fields of every segment of the holder.
holder_indexes(o) ==
    CASE o.phase = "idle" -> {o.S_indexed}
      [] o.phase \in {"proxied", "built"} -> {o.S_indexed, o.W_indexed}
      [] o.phase = "swapped" -> {o.Sp_indexed, o.W_indexed}
      [] o.phase = "unwrapped" -> {o.S_indexed, o.W_indexed}

Proxied(o) == o.phase \in {"proxied", "built"}

\* An upsert: to S while no optimizer runs, to W while S is proxied.
upsert(o, id, payload) ==
    IF Proxied(o)
    THEN [o EXCEPT !.W[id] = payload, !.during = @ \cup {"upsert"}]
    ELSE [o EXCEPT !.S[id] = payload]

\* A delete: from S while no optimizer runs; recorded in the tombstone set
\* (and taken out of W) while S is proxied.
delete(o, id) ==
    IF Proxied(o)
    THEN [o EXCEPT !.W[id] = NoPoint, !.tombstones = @ \cup {id},
                   !.during = @ \cup {"delete"}]
    ELSE [o EXCEPT !.S[id] = NoPoint]

Upsert ==
    \E id \in PointIds, payload \in Payloads :
        /\ opt.phase \in {"idle", "proxied", "built"}
        /\ opt.writes < MaxWrites
        /\ opt' = [upsert(opt, id, payload) EXCEPT !.writes = @ + 1,
                                                   !.reference[id] = payload]
        /\ SegFrame

Delete ==
    \E id \in PointIds :
        /\ opt.phase \in {"idle", "proxied", "built"}
        /\ opt.writes < MaxWrites
        /\ opt' = [delete(opt, id) EXCEPT !.writes = @ + 1,
                                          !.reference[id] = NoPoint]
        /\ SegFrame

\* Step 1: S is replaced in the holder by Proxy(S, W), W a fresh appendable
\* segment with the indexes of S.
OptimizerProxy ==
    /\ opt.phase = "idle"
    /\ opt' = [opt EXCEPT !.phase = "proxied", !.W = EmptySegment,
                          !.W_indexed = opt.S_indexed, !.tombstones = {}]
    /\ SegFrame

\* Step 2, a batch: the stop flag is read, then the next point of S is
\* copied to S' if it is live.
OptimizerBuildBatch ==
    /\ opt.phase = "proxied"
    /\ ~opt.stop
    /\ opt.copied # PointIds
    /\ LET id == CHOOSE i \in PointIds \ opt.copied :
                     \A j \in PointIds \ opt.copied : i <= j
       IN  opt' = [opt EXCEPT !.copied = @ \cup {id},
                              !.Sp[id] = apply_tombstones(opt.S, opt.tombstones)[id]]
    /\ SegFrame

\* Step 2, the end: every point was visited, the indexes of S are built on S'.
OptimizerBuildIndexes ==
    /\ opt.phase = "proxied"
    /\ ~opt.stop
    /\ opt.copied = PointIds
    /\ opt' = [opt EXCEPT !.phase = "built", !.Sp_indexed = opt.S_indexed]
    /\ SegFrame

\* Step 3: {Proxy(S, W)} -> {S', W}; the deletes recorded during the build
\* are applied to S'.
OptimizerSwap ==
    /\ opt.phase = "built"
    /\ opt' = [opt EXCEPT !.phase = "swapped",
                          !.Sp = apply_tombstones(opt.Sp, opt.tombstones)]
    /\ SegFrame

\* The task is asked to stop.
OptimizerCancel ==
    /\ opt.phase = "proxied"
    /\ ~opt.stop
    /\ opt' = [opt EXCEPT !.stop = TRUE]
    /\ SegFrame

\* Failure semantics: the task saw the flag at a batch boundary (or crashed);
\* the proxy is unwrapped back to S with its recorded deletes, W is retained.
OptimizerUnwrap ==
    \E crashed \in BOOLEAN :
        /\ opt.phase = "proxied"
        /\ opt.stop # crashed
        /\ opt' = [opt EXCEPT !.phase = "unwrapped",
                              !.S = apply_tombstones(opt.S, opt.tombstones)]
        /\ SegFrame

NextSeg ==
    \/ Upsert
    \/ Delete
    \/ OptimizerProxy
    \/ OptimizerBuildBatch
    \/ OptimizerBuildIndexes
    \/ OptimizerSwap
    \/ OptimizerCancel
    \/ OptimizerUnwrap

\* ------------------------------------------------- HNSW graph builder
HnswFrame == UNCHANGED <<reshardVars, transferVars, taskVars, cancelVars, segVars, fnVars, storeVars, iidxVars, tocVars, indexingVars>>

\* The vectors: points on a line, no two pairs at the same distance; the
\* score of two points is the negated distance, so that a higher score is a
\* closer point.
position(p) == <<4, 0, 11, 1, 9>>[p]
score_internal(a, b) ==
    IF position(a) >= position(b) THEN position(b) - position(a)
                                  ELSE position(a) - position(b)

\* The beam of a build search holds every point of the graph.
ef_construct == NumPoints

\* A faulty variant of get_m: the fan-out of level 0 at every level.
get_m0_everywhere(level) == m0

get_m(level) == IF level = 0 THEN m0 ELSE m

\* The best of a non-empty set of points by score to `base`, the lower offset
\* on a tie.
closest(S, base) ==
    CHOOSE p \in S : \A q \in S :
        \/ score_internal(p, base) > score_internal(q, base)
        \/ score_internal(p, base) = score_internal(q, base) /\ p <= q

\* A set of points as a sequence, best score to `base` first.
RECURSIVE sorted_by_score(_, _)
sorted_by_score(S, base) ==
    IF S = {} THEN <<>>
    ELSE LET p == closest(S, base)
         IN  <<p>> \o sorted_by_score(S \ {p}, base)

Range(seq) == {seq[i] : i \in 1..Len(seq)}

Insert(seq, i, x) == SubSeq(seq, 1, i - 1) \o <<x>> \o SubSeq(seq, i, Len(seq))

\* connect_new_point: new_point_id is put into the links of target_point_id
\* before the first link that is farther from the target; a full list loses
\* its last link for it, or is left alone if the new point is the farthest.
connect_new_point(links, new_point_id, target_point_id, level_m) ==
    LET new_to_target == score_internal(target_point_id, new_point_id)
        farther == {i \in 1..Len(links) :
                       score_internal(target_point_id, links[i]) < new_to_target}
        id_to_insert == IF farther = {} THEN Len(links) + 1
                        ELSE CHOOSE i \in farther : \A j \in farther : i <= j
    IN  IF Len(links) < level_m
        THEN Insert(links, id_to_insert, new_point_id)
        ELSE IF id_to_insert # Len(links) + 1
        THEN Insert(SubSeq(links, 1, Len(links) - 1), id_to_insert, new_point_id)
        ELSE links

\* select_candidate_with_heuristic_from_sorted, from candidate i on:
\* a candidate is taken unless a point taken before is closer to it than
\* the base it was scored against.
RECURSIVE select_from(_, _, _, _, _)
select_from(candidates, i, base, level_m, result_list) ==
    IF i > Len(candidates) \/ Len(result_list) >= level_m THEN result_list
    ELSE LET current_closest == candidates[i]
             is_good == \A selected_point \in Range(result_list) :
                            ~(score_internal(current_closest, selected_point)
                                > score_internal(current_closest, base))
         IN  select_from(candidates, i + 1, base, level_m,
                         IF is_good THEN Append(result_list, current_closest)
                                    ELSE result_list)

\* A faulty variant of select_candidate_with_heuristic_from_sorted: the first
\* level_m candidates, whatever is between them.
select_first_candidates(candidates, base, level_m) ==
    SubSeq(candidates, 1, IF Len(candidates) < level_m THEN Len(candidates) ELSE level_m)

select_candidate_with_heuristic_from_sorted(candidates, base, level_m) ==
    select_from(candidates, 1, base, level_m, <<>>)

\* A faulty variant of link_other_heuristic: the new point is pushed to a full list.
link_other_push_always(other_point_links, point_id, other_point, level_m) ==
    Append(other_point_links, point_id)

\* link_new_point with the heuristic, the links of a selected neighbour: the
\* new point is pushed if there is room, otherwise the links are selected
\* again from the old ones and the new point.
link_other_heuristic(other_point_links, point_id, other_point, level_m) ==
    IF Len(other_point_links) < level_m
    THEN Append(other_point_links, point_id)
    ELSE select_candidate_with_heuristic_from_sorted(
             sorted_by_score({point_id} \cup Range(SubSeq(other_point_links, 1, level_m)),
                             other_point),
             other_point, level_m)

\* EntryPoints::new_point with a filter that accepts every point: no entry
\* point yet, the new point becomes it and nothing is returned; an entry
\* point of a level not below is returned; a lower one is returned and
\* replaced by the new point.
new_point_entry(entry_points, point_id, level) ==
    IF entry_points = NoEntryPoint \/ entry_points.level < level
    THEN [point_id |-> point_id, level |-> level]
    ELSE entry_points

\* search_entry, one level: from `cur` to the neighbour of the best score to
\* the new point, as long as one is better.
RECURSIVE greedy(_, _, _, _)
greedy(h, cur, level, point_id) ==
    LET links == Range(h.links_layers[cur][level])
        better == {q \in links : score_internal(q, point_id) > score_internal(cur, point_id)}
    IN  IF better = {} THEN cur
        ELSE greedy(h, closest(better, point_id), level, point_id)

\* search_entry: the greedy descent from the entry point's level down to the
\* level above `target_level`.
RECURSIVE search_entry(_, _, _, _, _)
search_entry(h, entry, top_level, target_level, point_id) ==
    IF top_level <= target_level THEN entry
    ELSE search_entry(h, greedy(h, entry, top_level, point_id),
                      top_level - 1, target_level, point_id)

\* The read lock of a point's list at a level is held by the worker that
\* links the point and searches that level.
read_held(h, point_id, level) ==
    \E w \in Workers :
        /\ h.worker[w].pc = "search"
        /\ h.worker[w].point_id = point_id
        /\ h.worker[w].curr_level = level

\* The neighbour whose list a worker is about to write.
write_target(wk) ==
    IF wk.pc \in {"link_other", "connect_other"} /\ wk.next <= Len(wk.nearest)
    THEN wk.nearest[wk.next] ELSE NoPointOffset

\* A writer waits for the list: RwLock::write behind a held read lock.
writer_queued(h, point_id, level) ==
    /\ read_held(h, point_id, level)
    /\ \E w \in Workers :
           /\ write_target(h.worker[w]) = point_id
           /\ h.worker[w].curr_level = level

\* A faulty variant of read_blocked: one lock for all the lists, a reader
\* waits while a writer waits for any of them.
read_blocked_one_lock(h, point_id, level) ==
    \E w \in Workers, p \in PointOffsets : writer_queued(h, p, h.worker[w].curr_level)

\* RwLock::read of parking_lot waits while a writer waits for the lock.
read_blocked(h, point_id, level) == writer_queued(h, point_id, level)

SetWorker(h, w, wk) ==
    [h EXCEPT !.worker[w] = wk,
              !.overlapped = @ \/ \E v \in Workers \ {w} : h.worker[v].pc # "idle"]

\* The next point of the level's loop, and after the last one the level
\* below or the end of link_new_point.
next_point(h, w, wk) ==
    IF wk.next <= Len(wk.nearest) THEN SetWorker(h, w, wk)
    ELSE IF wk.curr_level = 0
    THEN [SetWorker(h, w, WorkerIdle) EXCEPT !.linked = @ \cup {wk.point_id}]
    ELSE SetWorker(h, w, [wk EXCEPT !.pc = "level", !.curr_level = @ - 1,
                                    !.nearest = <<>>, !.next = 1])

\* GraphLayersBuilder::new and set_levels for every point.
NewBuilder ==
    \E use_heuristic \in BOOLEAN, level \in [PointOffsets -> Levels] :
        /\ hnsw.phase = "new"
        /\ hnsw' = [hnsw EXCEPT !.phase = "build", !.use_heuristic = use_heuristic,
                                !.level = level]
        /\ HnswFrame

\* link_new_point, its start: a thread of the pool takes the next point; the
\* entry point registry is consulted under its mutex.
LinkNewPoint(w) ==
    \E point_id \in {p \in PointOffsets \ hnsw.started :
                        \A q \in PointOffsets \ hnsw.started : p <= q} :
        LET level == hnsw.level[point_id]
            entry_point == hnsw.entry_points
            h == [hnsw EXCEPT !.started = @ \cup {point_id},
                              !.entry_points = new_point_entry(@, point_id, level)]
        IN  /\ hnsw.phase = "build"
            /\ hnsw.worker[w].pc = "idle"
            /\ hnsw' =
                 IF entry_point = NoEntryPoint
                 THEN [h EXCEPT !.linked = @ \cup {point_id}]
                 ELSE SetWorker(h, w,
                        [WorkerIdle EXCEPT
                            !.pc = IF entry_point.level > level THEN "search_entry"
                                                                ELSE "level",
                            !.point_id = point_id,
                            !.level_entry = entry_point.point_id,
                            !.entry_level = entry_point.level,
                            !.curr_level = IF level < entry_point.level
                                           THEN level ELSE entry_point.level])
            /\ HnswFrame

\* The entry point is higher than the new point: the closest point on the
\* new point's level is looked for.
SearchEntry(w) ==
    LET wk == hnsw.worker[w] IN
    /\ wk.pc = "search_entry"
    /\ \A p \in PointOffsets, l \in Levels :
           l > wk.curr_level => ~read_blocked(hnsw, p, l)
    /\ hnsw' = SetWorker(hnsw, w,
                  [wk EXCEPT !.pc = "level",
                             !.level_entry = search_entry(hnsw, wk.level_entry,
                                                 wk.entry_level, wk.curr_level, wk.point_id)])
    /\ HnswFrame

\* A level of the linking loop: the read lock of the point's own list is
\* taken and search_on_level starts from the level entry.
ReadExistingLinks(w) ==
    LET wk == hnsw.worker[w] IN
    /\ wk.pc = "level"
    /\ ~read_blocked(hnsw, wk.point_id, wk.curr_level)
    /\ hnsw' = SetWorker(hnsw, w,
                  [wk EXCEPT !.pc = "search", !.visited = {wk.level_entry},
                             !.candidates = {wk.level_entry}])
    /\ HnswFrame

\* search_on_level returns the nearest points, with the existing links of
\* the point that were not visited; the read lock of the own list is released.
search_returns(h, wk, visited) ==
    LET existing_links == Range(h.links_layers[wk.point_id][wk.curr_level])
        found == sorted_by_score(visited \cup existing_links, wk.point_id)
        nearest_points == SubSeq(found, 1, IF Len(found) < ef_construct
                                           THEN Len(found) ELSE ef_construct)
    IN  [wk EXCEPT !.pc = IF h.use_heuristic THEN "select" ELSE "connect_own",
                   !.nearest = nearest_points, !.next = 1,
                   !.visited = {}, !.candidates = {}]

\* search_on_level, one candidate: its links are read with links_map under
\* the read lock of its list, the links not visited yet become candidates;
\* with no candidate left the search returns.
SearchOnLevel(w) ==
    LET wk == hnsw.worker[w]
        candidate == closest(wk.candidates, wk.point_id)
        links == Range(hnsw.links_layers[candidate][wk.curr_level])
        visited == wk.visited \cup links
        candidates == (wk.candidates \ {candidate}) \cup (links \ wk.visited)
    IN  /\ wk.pc = "search"
        /\ ~read_blocked(hnsw, candidate, wk.curr_level)
        /\ hnsw' = SetWorker(hnsw, w,
                      IF candidates = {} THEN search_returns(hnsw, wk, visited)
                      ELSE [wk EXCEPT !.visited = visited, !.candidates = candidates])
        /\ HnswFrame

\* With the heuristic: the selected nearest points become the links of the
\* new point.
SelectWithHeuristic(w) ==
    LET wk == hnsw.worker[w]
        level_m == get_m(wk.curr_level)
        selected_nearest ==
            select_candidate_with_heuristic_from_sorted(wk.nearest, wk.point_id, level_m)
        h == [hnsw EXCEPT !.links_layers[wk.point_id][wk.curr_level] = selected_nearest]
    IN  /\ wk.pc = "select"
        /\ hnsw' = SetWorker(h, w, [wk EXCEPT !.pc = "link_other",
                                              !.nearest = selected_nearest, !.next = 1])
        /\ HnswFrame

\* With the heuristic: the list of the next selected point is written.
LinkOther(w) ==
    LET wk == hnsw.worker[w]
        level_m == get_m(wk.curr_level)
        other_point == wk.nearest[wk.next]
        h == [hnsw EXCEPT !.links_layers[other_point][wk.curr_level] =
                  link_other_heuristic(@, wk.point_id, other_point, level_m)]
    IN  /\ wk.pc = "link_other"
        /\ ~read_held(hnsw, other_point, wk.curr_level)
        /\ hnsw' = next_point(h, w, [wk EXCEPT !.next = @ + 1])
        /\ HnswFrame

\* Without the heuristic: the next nearest point is connected to the list of
\* the new point.
ConnectOwn(w) ==
    LET wk == hnsw.worker[w]
        level_m == get_m(wk.curr_level)
        nearest_point == wk.nearest[wk.next]
        h == [hnsw EXCEPT !.links_layers[wk.point_id][wk.curr_level] =
                  connect_new_point(@, nearest_point, wk.point_id, level_m)]
    IN  /\ wk.pc = "connect_own"
        /\ hnsw' = SetWorker(h, w, [wk EXCEPT !.pc = "connect_other"])
        /\ HnswFrame

\* Without the heuristic: the new point is connected to the list of the
\* nearest point; a nearest point better than the level entry becomes it.
ConnectOther(w) ==
    LET wk == hnsw.worker[w]
        level_m == get_m(wk.curr_level)
        nearest_point == wk.nearest[wk.next]
        h == [hnsw EXCEPT !.links_layers[nearest_point][wk.curr_level] =
                  connect_new_point(@, wk.point_id, nearest_point, level_m)]
    IN  /\ wk.pc = "connect_other"
        /\ ~read_held(hnsw, nearest_point, wk.curr_level)
        /\ hnsw' = next_point(h, w,
                      [wk EXCEPT !.pc = "connect_own", !.next = @ + 1,
                                 !.level_entry =
                                     IF score_internal(nearest_point, wk.point_id)
                                          > score_internal(wk.level_entry, wk.point_id)
                                     THEN nearest_point ELSE @])
        /\ HnswFrame

WorkerSteps(w) ==
    \/ LinkNewPoint(w)
    \/ SearchEntry(w)
    \/ ReadExistingLinks(w)
    \/ SearchOnLevel(w)
    \/ SelectWithHeuristic(w)
    \/ LinkOther(w)
    \/ ConnectOwn(w)
    \/ ConnectOther(w)

NextHnsw ==
    \/ NewBuilder
    \/ \E w \in Workers : WorkerSteps(w)

\* ------------------------------------------ replica placement and validation
FnFrame == UNCHANGED <<reshardVars, transferVars, taskVars, cancelVars, segVars, hnswVars, storeVars, iidxVars, tocVars, indexingVars>>

\* Option<PeerId>::None.
NoPeer == 0
\* shard_distribution: HashMap<ShardId, HashSet<PeerId>>; a shard missing from
\* the map and a shard with no peers count the same in both functions.
ShardDistributions == [ShardIds -> SUBSET PeerIds]
\* peer_loads: for every peer, the number of shards that list it.
peer_loads(shard_distribution) ==
    [p \in PeerIds |-> Cardinality({s \in ShardIds : p \in shard_distribution[s]})]

\* The comparator of suggest_peer_to_remove_replica's sort_unstable_by.
compare_candidates(c1, c2) ==
    LET by_count == IF c2.count < c1.count THEN "Less"
                    ELSE IF c2.count > c1.count THEN "Greater" ELSE "Equal"
    IN  IF c1.status = "Active" /\ c2.status = "Active" THEN by_count
        ELSE IF c1.status = "Active" THEN "Less"
        ELSE IF c2.status = "Active" THEN "Greater"
        ELSE by_count

\* suggest_peer_to_remove_replica: the peers candidates.first() can be.  The
\* candidates come out of a HashMap in an order that differs from run to run and
\* the sort is unstable, so any candidate that no other one precedes can be first.
suggest_peer_to_remove_replica(shard_distribution, shard_peers) ==
    LET loads == peer_loads(shard_distribution)
        candidates == {[peer |-> p, status |-> shard_peers[p], count |-> loads[p]] :
                          p \in {q \in PeerIds : shard_peers[q] # NoReplica}}
    IN  IF candidates = {} THEN {NoPeer}
        ELSE {c.peer : c \in {c1 \in candidates :
                 \A c2 \in candidates : compare_candidates(c1, c2) # "Greater"}}

\* suggest_peer_to_add_replica: the peers candidates.first() can be.  peer_loads
\* has an entry only for a peer that some shard lists; the entries of the peers
\* that hold shard_id are removed; the rest is sorted by count, unstably, from
\* the HashMap's order.
suggest_peer_to_add_replica(shard_id, shard_distribution) ==
    LET loads == peer_loads(shard_distribution)
        candidates == {p \in PeerIds : loads[p] > 0 /\ p \notin shard_distribution[shard_id]}
    IN  IF candidates = {} THEN {NoPeer}
        ELSE {p \in candidates : \A q \in candidates : loads[p] <= loads[q]}

\* The caller has taken the result of the last call; the next call can be made.
FnReturns ==
    /\ fn_call # NoFnCall
    /\ fn_call' = NoFnCall
    /\ FnFrame

\* A call of suggest_peer_to_remove_replica on the replica set of one shard.
SuggestPeerToRemoveReplica ==
    /\ fn_call = NoFnCall
    /\ \E shard_distribution \in ShardDistributions, shard_id \in ShardIds,
       states \in [PeerIds -> ReplicaStates] :
        LET shard_peers == [p \in PeerIds |->
                IF p \in shard_distribution[shard_id] THEN states[p] ELSE NoReplica]
        IN  \E peer \in suggest_peer_to_remove_replica(shard_distribution, shard_peers) :
                /\ fn_call' = [op |-> "suggest_peer_to_remove_replica",
                               shard_distribution |-> shard_distribution,
                               shard_peers |-> shard_peers, result |-> peer]
                /\ FnFrame

\* Two calls of suggest_peer_to_add_replica with the same arguments.
SuggestPeerToAddReplica ==
    /\ fn_call = NoFnCall
    /\ \E shard_distribution \in ShardDistributions, shard_id \in ShardIds :
        \E peer \in suggest_peer_to_add_replica(shard_id, shard_distribution),
           again \in suggest_peer_to_add_replica(shard_id, shard_distribution) :
            /\ fn_call' = [op |-> "suggest_peer_to_add_replica", shard_id |-> shard_id,
                           shard_distribution |-> shard_distribution,
                           result |-> peer, again |-> again]
            /\ FnFrame

\* The transfers validate_transfer is asked about; it reads neither sync nor method.
TransferRequests == {t \in ShardTransfers : ~t.sync /\ t.method = NoMethod}
\* A call of validate_transfer.
ValidateTransfer ==
    /\ fn_call = NoFnCall
    /\ \E transfer \in TransferRequests, all_peers \in SUBSET PeerIds,
       shard_state \in {NoShard} \cup {ReplicaSet(f) : f \in [PeerIds -> {"Active", "Dead", NoReplica}]},
       current_transfers \in {{}} \cup {{t} : t \in TransferRequests} :
        /\ fn_call' = [op |-> "validate_transfer", transfer |-> transfer,
                       all_peers |-> all_peers, shard_state |-> shard_state,
                       current_transfers |-> current_transfers,
                       result |-> validate_transfer(transfer, all_peers, shard_state,
                                                    current_transfers)]
        /\ FnFrame

NextReplica ==
    SuggestPeerToRemoveReplica \/ SuggestPeerToAddReplica \/ ValidateTransfer \/ FnReturns

\* ---------------------------------------------------- segment point versions
StoreFrame == UNCHANGED <<reshardVars, transferVars, taskVars, cancelVars, segVars, hnswVars, fnVars, iidxVars, tocVars, indexingVars>>

\* The version check of a point operation: the operation is skipped when the
\* point is stored with a higher version.  An operation with the stored version
\* is applied: _test_multi_filterable_hnsw sets the payload of point n with the
\* version it has just upserted it with, and asserts that every point has it.
skip_by_version(points, op_num, id) == points[id].version > op_num

upsert_point(points, op_num, id, vector) ==
    IF skip_by_version(points, op_num, id) THEN points
    ELSE [points EXCEPT ![id] =
            [version |-> op_num, vector |-> vector,
             payload |-> IF @ = NoRecord THEN NoPayload ELSE @.payload]]

set_full_payload(points, op_num, id, payload) ==
    IF points[id] = NoRecord \/ skip_by_version(points, op_num, id) THEN points
    ELSE [points EXCEPT ![id] = [@ EXCEPT !.version = op_num, !.payload = payload]]

delete_point(points, op_num, id) ==
    IF points[id] = NoRecord \/ skip_by_version(points, op_num, id) THEN points
    ELSE [points EXCEPT ![id] = NoRecord]

SegCall(op, op_num, id, points) ==
    /\ segment' = [points |-> points,
                   last |-> [op |-> op, op_num |-> op_num, id |-> id,
                             stored |-> segment.points[id].version,
                             changed |-> points # segment.points]]
    /\ UNCHANGED coll
    /\ StoreFrame

UpsertPoint ==
    \E op_num \in OpNums, id \in PointIds, vector \in Vectors :
        SegCall("upsert_point", op_num, id, upsert_point(segment.points, op_num, id, vector))

SetFullPayload ==
    \E op_num \in OpNums, id \in PointIds, payload \in Payloads :
        SegCall("set_full_payload", op_num, id,
                set_full_payload(segment.points, op_num, id, payload))

DeletePoint ==
    \E op_num \in OpNums, id \in PointIds :
        SegCall("delete_point", op_num, id, delete_point(segment.points, op_num, id))

NextSegment == UpsertPoint \/ SetFullPayload \/ DeletePoint

\* ------------------------------------------------------ collection and reload
\* The update operations of a collection: upserts of one point with its vector
\* and payload, and deletes of one point.
UpdateOperations ==
    [kind : {"upsert"}, id : PointIds, vector : Vectors, payload : Payloads]
        \cup [kind : {"delete"}, id : PointIds]

\* An operation applied to the segment with its number in the log as version.
apply_operation(points, op_num, op) ==
    IF op.kind = "upsert"
    THEN set_full_payload(upsert_point(points, op_num, op.id, op.vector),
                          op_num, op.id, op.payload)
    ELSE delete_point(points, op_num, op.id)

RECURSIVE replay_from(_, _, _)
replay_from(points, wal, op_num) ==
    IF op_num > Len(wal) THEN points
    ELSE replay_from(apply_operation(points, op_num, wal[op_num]), wal, op_num + 1)

\* A faulty variant of replay: the log is not read.
replay_nothing(points, wal) == points

\* Loading: the operations of the log applied to the flushed segment.
replay(points, wal) == replay_from(points, wal, 1)

\* What scroll and retrieve return, and the count info() reports.
retrievable(points) ==
    [id \in PointIds |-> [vector |-> points[id].vector, payload |-> points[id].payload]]
vectors_count(points) == Cardinality({id \in PointIds : points[id] # NoRecord})

\* update(operation, wait = true): logged, then applied, then acknowledged.
CollectionUpdate ==
    \E op \in UpdateOperations :
        /\ coll.open
        /\ Len(coll.wal) < MaxOps
        /\ coll' = [coll EXCEPT
                      !.wal = Append(@, op),
                      !.points = apply_operation(@, Len(coll.wal) + 1, op),
                      !.fresh = FALSE,
                      !.count_before = vectors_count(coll.points),
                      !.again = op.kind = "upsert" /\ coll.points[op.id] # NoRecord]
        /\ UNCHANGED segment
        /\ StoreFrame

\* The segment is flushed to disk, at a moment the collection chooses.
CollectionFlush ==
    /\ coll.open
    /\ coll.disk # coll.points
    /\ coll' = [coll EXCEPT !.disk = coll.points, !.again = FALSE]
    /\ UNCHANGED segment
    /\ StoreFrame

\* before_drop and the drop of the collection: what is in memory is gone.
BeforeDrop ==
    /\ coll.open
    /\ coll' = [coll EXCEPT !.open = FALSE, !.closed = coll.points,
                            !.points = NoPoints, !.fresh = FALSE, !.again = FALSE]
    /\ UNCHANGED segment
    /\ StoreFrame

\* Collection::load.
CollectionLoad ==
    /\ ~coll.open
    /\ coll' = [coll EXCEPT !.open = TRUE, !.points = replay(coll.disk, coll.wal),
                            !.fresh = TRUE]
    /\ UNCHANGED segment
    /\ StoreFrame

NextCollection == CollectionUpdate \/ CollectionFlush \/ BeforeDrop \/ CollectionLoad

\* ------------------------------------------------------------ query_internal
\* Scored points as the shards return them, and the bounds of a request.
MaxScore == 2
MaxHits == 2
MaxQueryShards == 2
MaxPrefetches == 2
MaxLimit == 2
MaxOffset == 1
Orders == {"LargeBetter", "SmallBetter"}
ScoredPoints == [id : PointIds, score : 1..MaxScore]

\* The order of ScoredPointTies: by score, then by id; `a` comes out of the
\* merge before `b` when it is greater (LargeBetter) or less (SmallBetter).
ties_before(order, a, b) ==
    IF order = "LargeBetter"
    THEN a.score > b.score \/ (a.score = b.score /\ a.id > b.id)
    ELSE a.score < b.score \/ (a.score = b.score /\ a.id < b.id)

\* A list is in the query's order when no score is followed by a better one.
sorted_in(order, list) ==
    \A i \in 1..Len(list) - 1 :
        IF order = "LargeBetter" THEN list[i].score >= list[i + 1].score
        ELSE list[i].score <= list[i + 1].score

\* What one shard answers to one internal query: at most MaxHits points, every
\* id once, in the query's order.
ShardLists(order) ==
    {list \in UNION {[1..n -> ScoredPoints] : n \in 0..MaxHits} :
        /\ sorted_in(order, list)
        /\ \A i, j \in 1..Len(list) : i # j => list[i].id # list[j].id}

\* itertools kmerge_by: the head that no other head comes before is taken,
\* until every list is empty.
RECURSIVE kmerge_by(_, _)
kmerge_by(order, lists) ==
    LET heads == {i \in 1..Len(lists) : lists[i] # <<>>}
        first == {i \in heads : \A j \in heads : ~ties_before(order, lists[j][1], lists[i][1])}
        i == CHOOSE k \in first : \A l \in first : k <= l
    IN  IF heads = {} THEN <<>>
        ELSE <<lists[i][1]>> \o kmerge_by(order, [lists EXCEPT ![i] = Tail(@)])

\* itertools dedup: of consecutive equal elements the first one is kept.
RECURSIVE dedup(_)
dedup(list) ==
    IF Len(list) <= 1 THEN list
    ELSE IF list[1] = list[2] THEN dedup(Tail(list))
    ELSE <<list[1]>> \o dedup(Tail(list))

\* A faulty variant of take: nothing is cut off.
take_all(n, list) == list

\* Iterator::take.
take(n, list) == IF Len(list) <= n THEN list ELSE SubSeq(list, 1, n)

\* The requests: a root query that is an RRF fusion over its prefetches, or any
\* other root query with its offset and limit.
ShardQueryRequests ==
    [fusion : {TRUE}, prefetches : UNION {[1..n -> 1..MaxLimit] : n \in 1..MaxPrefetches},
     offset : {0}, limit : {MaxLimit}]
        \cup [fusion : {FALSE}, prefetches : {<<>>}, offset : 0..MaxOffset, limit : 1..MaxLimit]

\* intermediate_query_infos: the `take` of every list the shards return.
intermediate_query_infos(request) ==
    IF request.fusion THEN request.prefetches
    ELSE <<request.offset + request.limit>>

\* query_internal: column by column over the shards' answers.
query_internal(request, order, all_shards_results) ==
    LET query_infos == intermediate_query_infos(request)
    IN  [q \in 1..Len(query_infos) |->
            take(query_infos[q],
                 dedup(kmerge_by(order, [s \in 1..Len(all_shards_results) |->
                                            all_shards_results[s][q]])))]

QueryInternal ==
    /\ fn_call = NoFnCall
    /\ \E request \in ShardQueryRequests, order \in Orders, num_shards \in 1..MaxQueryShards :
        \E all_shards_results \in
              [1..num_shards -> [1..Len(intermediate_query_infos(request)) -> ShardLists(order)]] :
            /\ fn_call' = [op |-> "query_internal", request |-> request, order |-> order,
                           all_shards_results |-> all_shards_results,
                           results |-> query_internal(request, order, all_shards_results)]
            /\ FnFrame

NextQuery == QueryInternal \/ FnReturns

\* -------------------------------------------------------------- PlannedQuery
\* ShardPrefetch trees: prefetches without sub-prefetches, and prefetches over
\* up to MaxSubPrefetches of those; a request has up to MaxSubPrefetches of
\* either.
MaxSubPrefetches == 2
Queries == {"q1", "q2"}
LeafPrefetches == [query : Queries, limit : 1..MaxLimit, prefetches : {<<>>}]
ShardPrefetches ==
    [query : Queries, limit : 1..MaxLimit,
     prefetches : UNION {[1..n -> LeafPrefetches] : n \in 0..MaxSubPrefetches}]
\* Option<Filter>, Option<ScoreType>, Option<SearchParams>: None or one value.
NoFilter == "-"
NoScoreThreshold == "-"
NoParams == "-"
\* The root request carries a filter, a score threshold and search params; the
\* prefetches of the model carry none of their own.
PlanRequests ==
    [query : Queries, limit : 1..MaxLimit, offset : 0..MaxOffset,
     filter : {NoFilter, "f1"}, score_threshold : {NoScoreThreshold, "t1"},
     params : {NoParams, "p1"},
     prefetches : UNION {[1..n -> ShardPrefetches] : n \in 0..MaxSubPrefetches}]

CoreSearchRequest(query, filter, score_threshold, params, limit, offset) ==
    [query |-> query, filter |-> filter, score_threshold |-> score_threshold,
     params |-> params, limit |-> limit, offset |-> offset]
BatchIdx(idx) == [kind |-> "BatchIdx", idx |-> idx]
Prefetch(plan) == [kind |-> "Prefetch", plan |-> plan]
PrefetchPlan(sources, rescore, limit) ==
    [sources |-> sources, merge |-> [rescore |-> rescore, limit |-> limit]]
\* Option<ScoringQuery>::None.
NoRescore == "-"

\* A faulty variant of next_idx: every leaf refers to the first search.
next_idx_first(core_searches) == 0

\* let idx = core_searches.len(): the place the next search is pushed to.
next_idx(core_searches) == Len(core_searches)

\* recurse_prefetches: the searches pushed so far and the sources of the
\* prefetches, one after the other.
RECURSIVE recurse_prefetches(_, _)
recurse_prefetches(core_searches, prefetches) ==
    IF prefetches = <<>> THEN [core_searches |-> core_searches, sources |-> <<>>]
    ELSE
        LET prefetch == Head(prefetches)
            nested == recurse_prefetches(core_searches, prefetch.prefetches)
            searches == IF prefetch.prefetches = <<>>
                        THEN Append(core_searches,
                                    CoreSearchRequest(prefetch.query, NoFilter, NoScoreThreshold,
                                                      NoParams, prefetch.limit, 0))
                        ELSE nested.core_searches
            source == IF prefetch.prefetches = <<>>
                      THEN BatchIdx(next_idx(core_searches))
                      ELSE Prefetch(PrefetchPlan(nested.sources, prefetch.query, prefetch.limit))
            rest == recurse_prefetches(searches, Tail(prefetches))
        IN  [core_searches |-> rest.core_searches, sources |-> <<source>> \o rest.sources]

\* TryFrom<ShardQueryRequest> for PlannedQuery.
planned_query(request) ==
    IF request.prefetches # <<>>
    THEN LET r == recurse_prefetches(<<>>, request.prefetches)
         IN  [merge_plan |-> PrefetchPlan(r.sources, request.query, request.limit),
              batch |-> r.core_searches, offset |-> request.offset]
    ELSE [merge_plan |-> PrefetchPlan(<<BatchIdx(0)>>, NoRescore, request.limit),
          batch |-> <<CoreSearchRequest(request.query, request.filter,
                                        request.score_threshold, request.params,
                                        request.limit, request.offset)>>,
          offset |-> 0]

PlanQuery ==
    /\ fn_call = NoFnCall
    /\ \E request \in PlanRequests :
        /\ fn_call' = [op |-> "planned_query", request |-> request,
                       planned |-> planned_query(request)]
        /\ FnFrame

NextPlan == PlanQuery \/ FnReturns

\* --------------------------------------------------------- IndexingOptimizer
\* The segments of a holder as worst_segment reads them, and the thresholds.
MaxSegments == 2
MaxVectors == 2
\* Option<(SegmentId, LockedSegment)>::None.
NoSegmentId == 0
SegmentInfos ==
    [segment_type : {"Plain", "Special"}, vectors_count : 1..MaxVectors,
     index : {"Plain", "Hnsw"}, payload_index : {"Plain", "Struct"},
     storage_type : {"InMemory", "Mmap"}, has_payload : BOOLEAN]
SegmentHolders == UNION {[1..n -> SegmentInfos] : n \in 0..MaxSegments}
OptimizerThresholds ==
    [memmap_threshold : 1..MaxVectors, indexing_threshold : 1..MaxVectors,
     payload_indexing_threshold : 1..MaxVectors]

\* A faulty variant of require_indexing: the indexed payload fields are not asked for.
require_indexing_any_payload(s, thresholds_config) ==
    \/ (s.vectors_count >= thresholds_config.memmap_threshold /\ s.storage_type # "Mmap")
    \/ (s.vectors_count >= thresholds_config.indexing_threshold /\ s.index # "Hnsw")
    \/ (s.vectors_count >= thresholds_config.payload_indexing_threshold
        /\ s.payload_index # "Struct")

\* require_indexing of worst_segment's closure.
require_indexing(s, thresholds_config) ==
    LET is_vector_indexed == s.index = "Hnsw"
        is_payload_indexed == s.payload_index = "Struct"
        is_memmaped == s.storage_type = "Mmap"
        big_for_mmap == s.vectors_count >= thresholds_config.memmap_threshold
        big_for_index == s.vectors_count >= thresholds_config.indexing_threshold
        big_for_payload_index ==
            s.vectors_count >= thresholds_config.payload_indexing_threshold
    IN  \/ (big_for_mmap /\ ~is_memmaped)
        \/ (big_for_index /\ ~is_vector_indexed)
        \/ (s.has_payload /\ big_for_payload_index /\ ~is_payload_indexed)

\* worst_segment: the ids max_by_key can return.  It returns the last of the
\* largest in the holder's iteration order, which is not fixed: any of them.
worst_segment(segments, thresholds_config) ==
    LET kept == {idx \in DOMAIN segments :
                    /\ segments[idx].segment_type # "Special"
                    /\ require_indexing(segments[idx], thresholds_config)}
    IN  IF kept = {} THEN {NoSegmentId}
        ELSE {idx \in kept :
                \A other \in kept : segments[other].vectors_count <= segments[idx].vectors_count}

\* check_condition, given what worst_segment returned.
check_condition(worst) == IF worst = NoSegmentId THEN <<>> ELSE <<worst>>

CheckCondition ==
    /\ fn_call = NoFnCall
    /\ \E segments \in SegmentHolders, thresholds_config \in OptimizerThresholds :
        \E worst \in worst_segment(segments, thresholds_config) :
            /\ fn_call' = [op |-> "check_condition", segments |-> segments,
                           thresholds_config |-> thresholds_config,
                           result |-> check_condition(worst)]
            /\ FnFrame

NextIndexing == CheckCondition \/ FnReturns

\* ------------------------------------------- the optimizer run until idle
IndexingFrame == UNCHANGED <<reshardVars, transferVars, taskVars, cancelVars, segVars, hnswVars, fnVars, storeVars, iidxVars, tocVars>>

\* The holder and the thresholds the optimizer is run with.
SeedSegments ==
    /\ indexing.phase = "new"
    /\ \E segments \in SegmentHolders, thresholds_config \in OptimizerThresholds :
        indexing' = [indexing EXCEPT !.phase = "check", !.segments = segments,
                                     !.thresholds_config = thresholds_config,
                                     !.seeded = Len(segments)]
    /\ IndexingFrame

\* check_condition on the holder: the optimizer is idle when it suggests nothing.
CheckConditionRun ==
    /\ indexing.phase = "check"
    /\ \E worst \in worst_segment(indexing.segments, indexing.thresholds_config) :
        LET suggested == check_condition(worst)
        IN  indexing' = [indexing EXCEPT
                !.phase = IF suggested = <<>> THEN "idle" ELSE "optimize",
                !.suggested = suggested,
                !.reselected = @ \/ \E i \in 1..Len(suggested) :
                                        suggested[i] \in indexing.produced]
    /\ IndexingFrame

\* A faulty variant of optimized_segment: the segment is rebuilt as it was.
optimized_unchanged(s, thresholds_config) == s

\* The segment the optimizer builds from segment s: memory-mapped, with an
\* HNSW index and with a payload index as the thresholds ask for its size.
optimized_segment(s, thresholds_config) ==
    [segment_type |-> "Plain",
     vectors_count |-> s.vectors_count,
     index |-> IF s.vectors_count >= thresholds_config.indexing_threshold
               THEN "Hnsw" ELSE "Plain",
     payload_index |-> IF s.vectors_count >= thresholds_config.payload_indexing_threshold
                       THEN "Struct" ELSE "Plain",
     storage_type |-> IF s.vectors_count >= thresholds_config.memmap_threshold
                      THEN "Mmap" ELSE "InMemory",
     has_payload |-> s.has_payload]

\* The appendable segment the proxy writes to during a run: empty when
\* nothing is written meanwhile.
fresh_segment(s) ==
    [segment_type |-> "Plain", vectors_count |-> 0, index |-> "Plain",
     payload_index |-> "Plain", storage_type |-> "InMemory", has_payload |-> s.has_payload]

\* The segments of the holder that take writes: plain segments in memory that
\* no optimizer has built.
appendable_segments(segments, produced) ==
    {idx \in DOMAIN segments :
        /\ idx \notin produced
        /\ segments[idx].segment_type = "Plain"
        /\ segments[idx].index = "Plain"
        /\ segments[idx].storage_type = "InMemory"}

\* SegmentHolder::add: an id that is not in use.
new_segment_id(used) == CHOOSE idx \in 1..(Cardinality(used) + 1) : idx \notin used

\* optimize on the suggested segment, without writes meanwhile: the segment
\* is replaced by the one built from it; the empty segment of the proxy is
\* kept only if the holder has no other appendable segment.
Optimize ==
    /\ indexing.phase = "optimize"
    /\ LET segment_id == indexing.suggested[1]
           rest == [idx \in DOMAIN indexing.segments \ {segment_id} |-> indexing.segments[idx]]
           optimized_id == new_segment_id(DOMAIN indexing.segments)
           fresh_id == new_segment_id(DOMAIN indexing.segments \cup {optimized_id})
           optimized == optimized_segment(indexing.segments[segment_id],
                                          indexing.thresholds_config)
           keep_fresh == appendable_segments(rest, indexing.produced) = {}
           swapped == [idx \in DOMAIN rest \cup {optimized_id} |->
                          IF idx = optimized_id THEN optimized ELSE rest[idx]]
       IN  indexing' = [indexing EXCEPT
               !.phase = "check",
               !.suggested = <<>>,
               !.runs = @ + 1,
               !.produced = (@ \ {segment_id}) \cup {optimized_id},
               !.fresh = IF keep_fresh THEN (@ \ {segment_id}) \cup {fresh_id}
                         ELSE @ \ {segment_id},
               !.segments = IF keep_fresh
                            THEN [idx \in DOMAIN swapped \cup {fresh_id} |->
                                     IF idx = fresh_id
                                     THEN fresh_segment(indexing.segments[segment_id])
                                     ELSE swapped[idx]]
                            ELSE swapped]
    /\ IndexingFrame

NextOptimize == SeedSegments \/ CheckConditionRun \/ Optimize

\* ------------------------------------------------- the selection heuristic
\* The largest m a selection is asked for.
MaxSelect == 3
\* Every vector of `position` can be the base or a candidate.
Positioned == DOMAIN <<4, 0, 11, 1, 9>>

\* A call of select_candidate_with_heuristic_from_sorted, as
\* select_candidates_with_heuristic makes it: the candidates are scored
\* against the base and come best first.
SelectCandidates ==
    /\ fn_call = NoFnCall
    /\ \E base \in Positioned, S \in SUBSET Positioned, level_m \in 0..MaxSelect :
        /\ base \notin S
        /\ LET candidates == sorted_by_score(S, base)
           IN  fn_call' = [op |-> "select_candidate_with_heuristic_from_sorted",
                           candidates |-> candidates, base |-> base, m |-> level_m,
                           result |-> select_candidate_with_heuristic_from_sorted(
                                          candidates, base, level_m)]
        /\ FnFrame

NextSelect == SelectCandidates \/ FnReturns

\* ------------------------------------------------------- TableOfContent
TocFrame == UNCHANGED <<reshardVars, transferVars, taskVars, cancelVars, segVars, hnswVars, fnVars, storeVars, iidxVars, indexingVars>>

\* tokio::sync::RwLock is fair: waiters are served first in, first out, and
\* while anyone waits no new read lock is given out.
\* collections.read().await by `caller`, which goes to stage pc: the read lock
\* at once, or a place in the queue.
acquire_read(t, caller, pc) ==
    IF t.writer = NoTask /\ t.queue = <<>>
    THEN [t EXCEPT !.readers = @ + 1, ![caller].pc = pc, ![caller].waiting = FALSE]
    ELSE [t EXCEPT !.queue = Append(@, [task |-> caller, kind |-> "read"]),
                   ![caller].pc = pc, ![caller].waiting = TRUE]

\* collections.write().await.
acquire_write(t, caller, pc) ==
    IF t.writer = NoTask /\ t.readers = 0 /\ t.queue = <<>>
    THEN [t EXCEPT !.writer = caller, ![caller].pc = pc, ![caller].waiting = FALSE]
    ELSE [t EXCEPT !.queue = Append(@, [task |-> caller, kind |-> "write"]),
                   ![caller].pc = pc, ![caller].waiting = TRUE]

release_read(t) == [t EXCEPT !.readers = @ - 1]
release_write(t) == [t EXCEPT !.writer = NoTask]

\* The lock serves the head of its queue as soon as the lock allows it.
Grant ==
    /\ toc.queue # <<>>
    /\ LET head == Head(toc.queue)
       IN  \/ /\ head.kind = "read"
              /\ toc.writer = NoTask
              /\ toc' = [toc EXCEPT !.queue = Tail(@), !.readers = @ + 1,
                                    ![head.task].waiting = FALSE]
           \/ /\ head.kind = "write"
              /\ toc.writer = NoTask
              /\ toc.readers = 0
              /\ toc' = [toc EXCEPT !.queue = Tail(@), !.writer = head.task,
                                    ![head.task].waiting = FALSE]
    /\ TocFrame

\* update_aliases holds the write lock and has applied at least one action
\* and not yet all.
between_actions(t) ==
    /\ t.meta.pc = "aliases"
    /\ ~t.meta.waiting
    /\ t.meta.next > 1
    /\ t.meta.next <= Len(t.meta.actions)

\* A call reads the collections or the aliases: the state it observes.
observe(t) == [t EXCEPT !.observed_mid = @ \/ between_actions(t)]

\* get_collection: the read lock, kept until the returned guard is dropped.
GetCollection ==
    /\ toc.client = ClientIdle
    /\ \E collection_name \in TocNames :
        toc' = acquire_read([toc EXCEPT !.client.op = "get_collection",
                                        !.client.name = collection_name],
                            "client", "read1")
    /\ TocFrame

\* resolve_name: the alias is looked up, then the read lock is asked for again.
ResolveName ==
    /\ toc.client.pc = "read1"
    /\ ~toc.client.waiting
    /\ LET alias_collection_name == toc.aliases[toc.client.name]
           resolved_name == IF alias_collection_name = NoName THEN toc.client.name
                            ELSE alias_collection_name
       IN  toc' = acquire_read([observe(toc) EXCEPT !.client.resolved = resolved_name],
                               "client", "read2")
    /\ TocFrame

\* resolve_name: validate_collection_exists under the second read lock, which
\* is dropped after it; on an error get_collection drops the first one too.
ValidateResolved ==
    /\ toc.client.pc = "read2"
    /\ ~toc.client.waiting
    /\ LET t == release_read(observe(toc))
       IN  IF toc.client.resolved \in toc.collections
           THEN toc' = [t EXCEPT !.client.pc = "returned"]
           ELSE toc' = [release_read(t) EXCEPT !.client = ClientIdle]
    /\ TocFrame

\* The caller drops the guard that get_collection returned.
DropGuard ==
    /\ toc.client.pc = "returned"
    /\ toc' = [release_read(toc) EXCEPT !.client = ClientIdle]
    /\ TocFrame

\* create_collection: the name is checked under a read lock.
CreateCollection ==
    /\ toc.client = ClientIdle
    /\ \E collection_name \in TocNames :
        toc' = acquire_read([toc EXCEPT !.client.op = "create_collection",
                                        !.client.name = collection_name],
                            "client", "create_check")
    /\ TocFrame

\* create_collection: validate_collection_not_exists; the read lock is dropped,
\* the collection is built, and the write lock is asked for.
CreateCheck ==
    /\ toc.client.pc = "create_check"
    /\ ~toc.client.waiting
    /\ LET t == release_read(observe(toc))
       IN  IF toc.client.name \in toc.collections
           THEN toc' = [t EXCEPT !.client = ClientIdle]
           ELSE toc' = acquire_write(t, "client", "create_write")
    /\ TocFrame

\* create_collection: the name is checked again under the write lock, and the
\* collection is inserted.
CreateInsert ==
    /\ toc.client.pc = "create_write"
    /\ ~toc.client.waiting
    /\ toc' = [release_write(observe(toc)) EXCEPT
                  !.collections = @ \cup {toc.client.name},
                  !.client = ClientIdle]
    /\ TocFrame

DeleteCollection ==
    /\ toc.client = ClientIdle
    /\ \E collection_name \in TocNames :
        toc' = acquire_write([toc EXCEPT !.client.op = "delete_collection",
                                         !.client.name = collection_name],
                             "client", "delete_write")
    /\ TocFrame

\* delete_collection: the collection is removed under the write lock.
DeleteRemove ==
    /\ toc.client.pc = "delete_write"
    /\ ~toc.client.waiting
    /\ toc' = [release_write(observe(toc)) EXCEPT
                  !.collections = @ \ {toc.client.name},
                  !.client = ClientIdle]
    /\ TocFrame

\* AliasOperations.
AliasActions ==
    [kind : {"CreateAlias"}, collection_name : TocNames, alias_name : TocNames]
    \cup [kind : {"DeleteAlias"}, alias_name : TocNames]
    \cup [kind : {"RenameAlias"}, old_alias_name : TocNames, new_alias_name : TocNames]

\* One action of update_aliases on the aliases: the aliases after it, or the
\* error it returns.
alias_action(collections, aliases, action) ==
    IF action.kind = "CreateAlias"
    THEN IF action.collection_name \notin collections \/ action.alias_name \in collections
         THEN [ok |-> FALSE, aliases |-> aliases]
         ELSE [ok |-> TRUE,
               aliases |-> [aliases EXCEPT ![action.alias_name] = action.collection_name]]
    ELSE IF action.kind = "DeleteAlias"
    THEN [ok |-> TRUE, aliases |-> [aliases EXCEPT ![action.alias_name] = NoName]]
    ELSE IF aliases[action.old_alias_name] = NoName
         THEN [ok |-> FALSE, aliases |-> aliases]
         ELSE [ok |-> TRUE,
               aliases |-> [[aliases EXCEPT ![action.old_alias_name] = NoName]
                               EXCEPT ![action.new_alias_name] = aliases[action.old_alias_name]]]

\* update_aliases: the write lock for the whole list of actions.
UpdateAliases ==
    /\ toc.meta = MetaIdle
    /\ \E n \in 1..MaxActions : \E actions \in [1..n -> AliasActions] :
        toc' = acquire_write([toc EXCEPT !.meta.actions = actions, !.meta.next = 1,
                                         !.meta.before = toc.aliases],
                             "meta", "aliases")
    /\ TocFrame

\* update_aliases, one turn of its loop: the action is applied, or its error
\* is returned and the lock is dropped.
ApplyAliasAction ==
    /\ toc.meta.pc = "aliases"
    /\ ~toc.meta.waiting
    /\ toc.meta.next <= Len(toc.meta.actions)
    /\ LET r == alias_action(toc.collections, toc.aliases, toc.meta.actions[toc.meta.next])
       IN  IF r.ok
           THEN toc' = [toc EXCEPT !.aliases = r.aliases, !.meta.next = @ + 1]
           ELSE toc' = [release_write(toc) EXCEPT !.meta.pc = "failed"]
    /\ TocFrame

\* update_aliases: Ok(true) after the last action.
AliasesDone ==
    /\ toc.meta.pc = "aliases"
    /\ ~toc.meta.waiting
    /\ toc.meta.next > Len(toc.meta.actions)
    /\ toc' = [release_write(toc) EXCEPT !.meta.pc = "done"]
    /\ TocFrame

\* The caller of update_aliases has its result.
AliasesReturn ==
    /\ toc.meta.pc \in {"failed", "done"}
    /\ toc' = [toc EXCEPT !.meta = MetaIdle]
    /\ TocFrame

ClientSteps ==
    ResolveName \/ ValidateResolved \/ DropGuard \/ CreateCheck \/ CreateInsert \/ DeleteRemove
MetaSteps == ApplyAliasAction \/ AliasesDone \/ AliasesReturn
NextToc ==
    \/ GetCollection \/ CreateCollection \/ DeleteCollection \/ UpdateAliases
    \/ ClientSteps \/ MetaSteps \/ Grant

\* ------------------------------------------------- strict-mode verification
\* The values a request can carry and the largest limit a configuration can set.
MaxStrictValue == 2
MaxStrictLimit == 1
\* Option<usize> and Option<bool>.
NoUsize == [some |-> FALSE, value |-> 0]
NoBool == [some |-> FALSE, value |-> FALSE]
SomeOf(v) == [some |-> TRUE, value |-> v]
OptUsize(S) == {NoUsize} \cup {SomeOf(v) : v \in S}
OptBool == {NoBool} \cup {SomeOf(v) : v \in BOOLEAN}

\* StrictModeConfig, the fields the verification reads.
StrictModeConfigs ==
    [max_query_limit : OptUsize(1..MaxStrictLimit),
     max_timeout : OptUsize(1..MaxStrictLimit),
     search_max_hnsw_ef : OptUsize(1..MaxStrictLimit),
     search_max_oversampling : OptUsize(1..MaxStrictLimit),
     search_allow_exact : OptBool,
     unindexed_filtering_retrieve : OptBool,
     unindexed_filtering_update : OptBool]

\* SearchParams: exact, hnsw_ef, quantization.oversampling.
NoSearchParams == [some |-> FALSE, exact |-> FALSE, hnsw_ef |-> NoUsize, oversampling |-> NoUsize]
OptSearchParams ==
    {NoSearchParams} \cup
    [some : {TRUE}, exact : BOOLEAN,
     hnsw_ef : OptUsize(1..MaxStrictValue), oversampling : OptUsize(1..MaxStrictValue)]

\* A request as StrictModeVerification sees it, by what its accessors return;
\* of a filter only whether collection.one_unindexed_key finds a key in it.
StrictModeRequests ==
    [query_limit : OptUsize(1..MaxStrictValue),
     timeout : OptUsize(1..MaxStrictValue),
     read_filter_unindexed : BOOLEAN,
     write_filter_unindexed : BOOLEAN,
     request_exact : OptBool,
     request_search_params : OptSearchParams]

\* `?`: the first error ends the verification.
and_then(first, rest) == IF first = "Ok" THEN rest ELSE first

check_limit_opt(value, limit) ==
    IF ~(limit.some /\ value.some) THEN "Ok"
    ELSE IF value.value > limit.value THEN "StrictMode"
    ELSE "Ok"

check_bool_opt(value, allowed) ==
    IF allowed # SomeOf(FALSE) \/ ~(value.some /\ value.value) THEN "Ok" ELSE "StrictMode"

check_timeout(timeout, strict_mode_config) ==
    check_limit_opt(SomeOf(timeout), strict_mode_config.max_timeout)

check_request_timeout(request, strict_mode_config) ==
    IF request.timeout.some THEN check_timeout(request.timeout.value, strict_mode_config)
    ELSE "Ok"

check_request_query_limit(request, strict_mode_config) ==
    check_limit_opt(request.query_limit, strict_mode_config.max_query_limit)

check_filter(unindexed, allow_unindexed_filter) ==
    IF allow_unindexed_filter = SomeOf(FALSE) /\ unindexed THEN "StrictMode" ELSE "Ok"

check_request_filter(request, strict_mode_config) ==
    and_then(check_filter(request.read_filter_unindexed,
                          strict_mode_config.unindexed_filtering_retrieve),
             check_filter(request.write_filter_unindexed,
                          strict_mode_config.unindexed_filtering_update))

check_request_exact(request, strict_mode_config) ==
    check_bool_opt(request.request_exact, strict_mode_config.search_allow_exact)

\* check_strict_mode of SearchParams: its check_custom and its exact flag;
\* its other accessors return None.
search_params_check_strict_mode(search_params, strict_mode_config) ==
    and_then(check_limit_opt(search_params.oversampling,
                             strict_mode_config.search_max_oversampling),
    and_then(check_limit_opt(search_params.hnsw_ef, strict_mode_config.search_max_hnsw_ef),
             check_bool_opt(SomeOf(search_params.exact),
                            strict_mode_config.search_allow_exact)))

check_search_params(request, strict_mode_config) ==
    IF request.request_search_params.some
    THEN search_params_check_strict_mode(request.request_search_params, strict_mode_config)
    ELSE "Ok"

\* check_strict_mode, the default of the trait, with the default check_custom.
check_strict_mode(request, strict_mode_config) ==
    and_then(check_request_query_limit(request, strict_mode_config),
    and_then(check_request_filter(request, strict_mode_config),
    and_then(check_request_exact(request, strict_mode_config),
             check_search_params(request, strict_mode_config))))

CheckStrictMode ==
    /\ fn_call = NoFnCall
    /\ \E request \in StrictModeRequests, strict_mode_config \in StrictModeConfigs :
        fn_call' = [op |-> "check_strict_mode", request |-> request,
                    strict_mode_config |-> strict_mode_config,
                    result |-> check_strict_mode(request, strict_mode_config),
                    timeout_result |-> check_request_timeout(request, strict_mode_config)]
    /\ FnFrame

NextStrict == CheckStrictMode \/ FnReturns

\* ------------------------------------------------ the full-text index on disk
IidxFrame == UNCHANGED <<reshardVars, transferVars, taskVars, cancelVars, segVars, hnswVars, fnVars, storeVars, tocVars, indexingVars>>

\* The documents of the calls: token ids from document_from_tokens, at least one.
Documents == (SUBSET TokenIds) \ {{}}
\* The value of point_to_docs at idx is a document: the key was put and its
\* value is not empty.
is_document(point_to_docs, idx) == point_to_docs[idx] \notin {NoDocKey, put_tokens({})}
\* point_to_docs.lock_db().iter().count(): the keys that were ever put.
keys_count(point_to_docs) == Cardinality({idx \in Idxs : point_to_docs[idx] # NoDocKey})

\* A faulty variant of push_posting: a posting list is left as it is.
push_nothing(posting, idx) == posting
\* index_document, one posting list: posting.push(idx).
push_posting(posting, idx) == Append(posting, idx)

is_sorted(posting) == \A i, j \in 1..Len(posting) : i < j => posting[i] <= posting[j]
without(posting, i) == SubSeq(posting, 1, i - 1) \o SubSeq(posting, i + 1, Len(posting))
\* remove_document, one posting list: binary_search and remove.  On a sorted
\* list the search finds idx if it is there; on a list that is not sorted the
\* result of binary_search is unspecified, it may miss idx.
remove_posting(posting, idx) ==
    LET found == {i \in 1..Len(posting) : posting[i] = idx}
        removed == {without(posting, i) : i \in found}
    IN  IF found = {} THEN {posting}
        ELSE IF is_sorted(posting) THEN removed
        ELSE removed \cup {posting}

IndexDocument ==
    /\ inverted_index.last.result # "panicked"
    /\ inverted_index.calls < MaxIndexCalls
    /\ \E idx \in Idxs, document \in Documents :
        inverted_index' =
            [points_count |-> inverted_index.points_count + 1,
             point_to_docs |-> [inverted_index.point_to_docs EXCEPT ![idx] = put_tokens(document)],
             postings |-> [t \in TokenIds |->
                 IF t \in document THEN push_posting(inverted_index.postings[t], idx)
                                   ELSE inverted_index.postings[t]],
             calls |-> inverted_index.calls + 1,
             last |-> [op |-> "index_document", idx |-> idx, result |-> "Ok",
                       indexed |-> is_document(inverted_index.point_to_docs, idx),
                       count_before |-> inverted_index.points_count,
                       docs_before |-> inverted_index.point_to_docs]]
    /\ IidxFrame

\* remove_document.  points_count is a usize: taking one from 0 panics in a
\* build with overflow checks and wraps to usize::MAX without them; the
\* model writes usize::MAX as -1, and adds to it as to any other count.
RemoveDocument ==
    /\ inverted_index.last.result # "panicked"
    /\ inverted_index.calls < MaxIndexCalls
    /\ \E idx \in Idxs :
        LET point_to_docs == inverted_index.point_to_docs
            call == [op |-> "remove_document", idx |-> idx, result |-> "None",
                     indexed |-> is_document(point_to_docs, idx),
                     count_before |-> inverted_index.points_count,
                     docs_before |-> point_to_docs]
            tokens == point_to_docs[idx].tokens
            emptied == [point_to_docs EXCEPT ![idx] = put_tokens({})]
        IN  IF keys_count(point_to_docs) <= idx
            THEN inverted_index' = [inverted_index EXCEPT !.calls = @ + 1, !.last = call]
            ELSE IF point_to_docs[idx] = NoDocKey
            THEN inverted_index' = [inverted_index EXCEPT !.calls = @ + 1,
                                            !.last = [call EXCEPT !.result = "Err"]]
            ELSE \/ /\ inverted_index.points_count = 0
                    /\ inverted_index' = [inverted_index EXCEPT
                           !.calls = @ + 1,
                           !.point_to_docs = emptied,
                           !.last = [call EXCEPT !.result = "panicked"]]
                 \/ \E postings \in [TokenIds -> UNION {remove_posting(inverted_index.postings[t], idx) : t \in TokenIds}] :
                        /\ \A t \in TokenIds :
                               postings[t] \in IF t \in tokens
                                               THEN remove_posting(inverted_index.postings[t], idx)
                                               ELSE {inverted_index.postings[t]}
                        /\ inverted_index' = [inverted_index EXCEPT
                               !.calls = @ + 1,
                               !.point_to_docs = emptied,
                               !.points_count = IF @ = 0 THEN -1 ELSE @ - 1,
                               !.postings = postings,
                               !.last = [call EXCEPT !.result = "Some"]]
    /\ IidxFrame

NextIidx == IndexDocument \/ RemoveDocument

vars == <<reshardVars, transferVars, taskVars, cancelVars, segVars, hnswVars, fnVars, storeVars, iidxVars, tocVars, indexingVars>>
Init == InitHolder
Next ==
    \/ NextReshard \/ NextTransfer \/ NextTask \/ NextCancel \/ NextSeg \/ NextHnsw
    \/ NextReplica \/ NextSegment \/ NextCollection \/ NextQuery
    \/ NextPlan \/ NextIndexing \/ NextSelect \/ NextIidx \/ NextStrict \/ NextToc
    \/ NextOptimize
SpecReshard == Init /\ [][NextReshard]_vars
SpecTransfer == Init /\ [][NextTransfer]_vars
SpecTask == Init /\ [][NextTask]_vars
SpecCancel == Init /\ [][NextCancel]_vars
SpecSeg == Init /\ [][NextSeg]_vars
SpecHnsw == Init /\ [][NextHnsw]_vars
SpecReplica == Init /\ [][NextReplica]_vars
SpecSegment == Init /\ [][NextSegment]_vars
SpecQuery == Init /\ [][NextQuery]_vars
SpecPlan == Init /\ [][NextPlan]_vars
SpecIndexing == Init /\ [][NextIndexing]_vars
SpecSelect == Init /\ [][NextSelect]_vars
SpecIidx == Init /\ [][NextIidx]_vars
SpecStrict == Init /\ [][NextStrict]_vars
SpecToc == Init /\ [][NextToc]_vars
SpecOptimize == Init /\ [][NextOptimize]_vars
\* Every call that has started is run on, and the lock serves its queue.
SpecTocFair == SpecToc /\ WF_vars(ClientSteps) /\ WF_vars(MetaSteps) /\ WF_vars(Grant)
SpecCollection == Init /\ [][NextCollection]_vars
SpecHnswFair == SpecHnsw /\ \A w \in Workers : WF_vars(WorkerSteps(w))
\* The task is scheduled until it returns; nothing obliges anyone to stop it.
TaskSteps ==
    TaskLoop \/ TaskInitiate \/ TaskProxify \/ TaskTransferIndexes \/ TaskBatchCheck
        \/ TaskTransferBatch \/ TaskRequestHttpPort \/ TaskCreateSnapshot
        \/ TaskRecoverRequest \/ TaskAfterAttempt \/ TaskSleep \/ TaskCallback
SpecTaskFair == SpecTask /\ WF_vars(TaskSteps)
Spec == Init /\ [][Next]_vars

\* ================================================================ claims
AbortFails == {"none", "cleanup", "remove_peer", "key_mapping", "drop_shard", "state_write"}
CommitFails == {"none", "state_write"}
StageOf(state) == StageRank(state.stage)
SameResharding(a, b) ==
    /\ a.direction = b.direction
    /\ a.peer_id = b.peer_id
    /\ a.shard_id = b.shard_id
    /\ a.shard_key = b.shard_key

\* C1: over every sequence of resharding calls a new resharding starts at
\* MigratingPoints, and a call on a resharding in progress keeps its stage or
\* moves it to the next stage: never back, never over a stage.
C1_Step ==
    /\ (~resharding_state.present /\ resharding_state'.present)
          => resharding_state'.stage = "MigratingPoints"
    /\ (resharding_state.present /\ resharding_state'.present)
          => /\ SameResharding(resharding_state, resharding_state')
             /\ StageOf(resharding_state') \in
                    {StageOf(resharding_state), StageOf(resharding_state) + 1}
C1_StageMonotonic == [][C1_Step]_vars
C1_Witness ==
    /\ resharding_state.present
    /\ resharding_state.stage = "WriteHashRingCommitted"
    /\ last.op = "commit_write_hashring"
    /\ last.result = "Ok"
    /\ last.at = "ReadHashRingCommitted"

\* C2 as stated: whatever `force` is, abort_resharding of the resharding in
\* progress at stage ReadHashRingCommitted or later returns a bad-request error
\* and leaves the holder as it was.
C2_AbortAfterCommitRejected ==
    \A key \in ReshardKeys, force \in BOOLEAN, fail \in AbortFails :
        (matches(resharding_state, key) /\ StageOf(resharding_state) >= 1)
            => abort_resharding(Holder, key, force, fail, {}) = Ret(Holder, "BadRequest")
\* C2 amended: an abort_resharding that is not forced, of the resharding in
\* progress at stage ReadHashRingCommitted or later, returns a bad-request error
\* and leaves the stage, the rings, the replica states and the shards as they were.
C2_UnforcedAbortAfterCommitRejected ==
    \A key \in ReshardKeys, fail \in AbortFails :
        (matches(resharding_state, key) /\ StageOf(resharding_state) >= 1)
            => abort_resharding(Holder, key, FALSE, fail, {}) = Ret(Holder, "BadRequest")
C2_Witness ==
    /\ resharding_state.present
    /\ StageOf(resharding_state) >= 1
    /\ last.op = "abort_resharding"
    /\ last.result = "BadRequest"
    /\ last.at \in {"ReadHashRingCommitted", "WriteHashRingCommitted"}

\* C3: in every reachable state (here: even in runs in which no call failed) a
\* key's ring is a Resharding router exactly when a resharding of that key is
\* in progress at stage MigratingPoints or ReadHashRingCommitted.
C3_RingMatchesStage ==
    failures = 0 =>
        \A k \in ShardKeys :
            is_resharding(rings[k]) <=>
                /\ resharding_state.present
                /\ resharding_state.shard_key = k
                /\ resharding_state.stage \in {"MigratingPoints", "ReadHashRingCommitted"}

\* C4: check_start_resharding returns Ok exactly when the key has a ring, no
\* resharding is in progress, and the shard is new (Up) or is in the holder and
\* its key has at least two shards (Down).
C4_KeyShards(k) == {s \in ShardIds : shards[s].present /\ shard_id_to_key_mapping[s] = k}
C4_Expected(key) ==
    /\ has_ring(Holder, key.shard_key)
    /\ ~resharding_state.present
    /\ \/ key.direction = "Up" /\ ~shards[key.shard_id].present
       \/ /\ key.direction = "Down"
          /\ shards[key.shard_id].present
          /\ Cardinality(C4_KeyShards(key.shard_key)) >= 2
C4_CheckStartExact ==
    failures = 0 =>
        \A key \in ReshardKeys :
            check_start_resharding(Holder, key) = (IF C4_Expected(key) THEN "Ok" ELSE "BadRequest")

\* C5: commit_read_hashring, commit_write_hashring and check_finish_resharding
\* succeed only for the key of the resharding in progress at the stage each
\* expects; otherwise they return a bad-request error and leave the stage and
\* the rings as they were.
C5_At(key, stage) == matches(resharding_state, key) /\ resharding_state.stage = stage
C5_Rejected(r) ==
    /\ r.result = "BadRequest"
    /\ r.h.resharding_state = resharding_state
    /\ r.h.rings = rings
C5_CommitNeedsStage ==
    \A key \in ReshardKeys, fail \in CommitFails :
        LET rr == commit_read_hashring(Holder, key, fail)
            rw == commit_write_hashring(Holder, key, fail)
            cf == Ret(Holder, check_finish_resharding(Holder, key))
        IN  /\ rr.result = "Ok" => C5_At(key, "MigratingPoints")
            /\ rw.result = "Ok" => C5_At(key, "ReadHashRingCommitted")
            /\ cf.result = "Ok" => C5_At(key, "WriteHashRingCommitted")
            /\ ~C5_At(key, "MigratingPoints") => C5_Rejected(rr)
            /\ ~C5_At(key, "ReadHashRingCommitted") => C5_Rejected(rw)
            /\ ~C5_At(key, "WriteHashRingCommitted") => C5_Rejected(cf)
C5_Witness ==
    /\ resharding_state.present
    /\ resharding_state.stage = "MigratingPoints"
    /\ last.op = "commit_write_hashring"
    /\ last.result = "BadRequest"
    /\ last.at = "MigratingPoints"

\* C6: an abort_resharding that changes nothing and returns Ok.
C6_NoOp(h, key) ==
    \A force \in BOOLEAN, fail \in AbortFails :
        abort_resharding(h, key, force, fail, {}) = Ret(h, "Ok")
C6_SecondAbortIsNoOp ==
    \A key \in ReshardKeys, force \in BOOLEAN :
        LET first == abort_resharding(Holder, key, force, "none", {})
        IN  first.result = "Ok" => C6_NoOp(first.h, key)
\* C6 as stated: abort_resharding is a no-op returning Ok whenever no
\* resharding is in progress, and when it is repeated after a successful abort.
C6_AbortIdempotent ==
    /\ \A key \in ReshardKeys : ~resharding_state.present => C6_NoOp(Holder, key)
    /\ C6_SecondAbortIsNoOp
\* C6 amended: the repeated abort is a no-op returning Ok; an abort with no
\* resharding in progress is one when the key's ring is not a Resharding router
\* and, for direction Up, the key's shard is not in the holder or has replicas
\* none of which is on the key's peer.
C6_NothingToCleanUp(key) ==
    /\ ~is_resharding(rings[key.shard_key])
    /\ \/ key.direction = "Down"
       \/ ~shards[key.shard_id].present
       \/ /\ shards[key.shard_id].peers[key.peer_id] = NoReplica
          /\ peers_of(shards[key.shard_id]) # {}
C6_AbortIdempotentWhenClean ==
    /\ \A key \in ReshardKeys :
           (~resharding_state.present /\ C6_NothingToCleanUp(key)) => C6_NoOp(Holder, key)
    /\ C6_SecondAbortIsNoOp
C6_Witness ==
    /\ ~resharding_state.present
    /\ started >= 1
    /\ last.op = "abort_resharding"
    /\ last.result = "Ok"
    /\ last.at = "-"

\* C7: abort_resharding of the Up resharding in progress at stage
\* MigratingPoints (no disk or replica-set operation failing) leaves no
\* ReshardState, a Single ring without the new shard, no replica of the new
\* shard on the resharding peer, and, if the new shard then has no replica, no
\* such shard in the holder, in the shard id to key mapping or in the mapping
\* of the resharding's shard key.
C7_After(h, key) ==
    /\ ~h.resharding_state.present
    /\ h.rings[key.shard_key].kind = "Single"
    /\ key.shard_id \notin h.rings[key.shard_key].old
    /\ h.shards[key.shard_id].peers[key.peer_id] = NoReplica
    /\ peers_of(h.shards[key.shard_id]) = {}
          => /\ ~h.shards[key.shard_id].present
             /\ h.shard_id_to_key_mapping[key.shard_id] = NoKey
             /\ key.shard_key # NoKey => key.shard_id \notin h.key_mapping[key.shard_key].ids
C7_AbortUpCleansUp ==
    \A key \in ReshardKeys, force \in BOOLEAN :
        (C5_At(key, "MigratingPoints") /\ key.direction = "Up")
            => LET r == abort_resharding(Holder, key, force, "none", {})
               IN  r.result = "Ok" => C7_After(r.h, key)

\* C8: no two active transfers share a peer, as source or as target, also
\* when they move different shards.
C8_NoSharedPeer ==
    \A t1 \in shard_transfers, t2 \in shard_transfers :
        t1 # t2 => {t1.from, t1.to} \cap {t2.from, t2.to} = {}

\* C9: every active transfer has a source peer different from its target peer.
C9_FromDiffersFromTo ==
    \A t \in shard_transfers : t.from # t.to

\* C10: handle_transferred_shard_proxy shows no intermediate state: the target
\* peer is never seen added while the local shard is still a proxy, neither
\* while the call runs nor after it returned an error.
C10_NoIntermediateState ==
    (handler.pc # "idle" /\ handler.transfer.shard_id \in proxied)
        => shards[handler.transfer.shard_id].peers[handler.transfer.to] = handler.before

TaskEnded == task.pc \in {"returned", "cleaned"}

\* C11 as stated: the task runs on_finish exactly if an attempt returned Ok,
\* on_error exactly if every attempt failed and the task was not cancelled,
\* never both, and returns true exactly if on_finish ran; after a Cancelled
\* attempt or a stop flag read set no attempt starts and no callback runs.
C11_Rest ==
    /\ ~(task.on_finish /\ task.on_error)
    /\ (task.on_finish \/ task.on_error) => TaskEnded
    /\ task.after_seen = 0
    /\ task.seen_stop => (~task.on_finish /\ ~task.on_error)
    /\ TaskEnded =>
          /\ task.on_error <=> (task.errs = MAX_RETRY_COUNT /\ task.oks = 0 /\ ~task.seen_stop)
          /\ (task.ret = "true") <=> task.on_finish
C11_CallbackMatchesAttempts ==
    /\ C11_Rest
    /\ TaskEnded => (task.on_finish <=> task.oks > 0)
\* C11 amended: on_finish runs exactly if an attempt returned Ok and the stop
\* flag was not set when the task read it after that attempt; the rest as stated.
C11_CallbackMatchesAttemptsUnlessStopped ==
    /\ C11_Rest
    /\ TaskEnded => (task.on_finish <=> (task.oks > 0 /\ ~task.seen_stop))
C11_Witness ==
    /\ task.pc = "returned"
    /\ task.oks = 1
    /\ task.errs = 1
    /\ task.on_finish
    /\ task.ret = "true"

\* C12: the task makes at most MAX_RETRY_COUNT attempts, none after a
\* successful one, sleeps n times RETRY_TIMEOUT after its n-th failed attempt,
\* and, once spawned, ends.
C12_Bounded ==
    /\ task.attempts <= MAX_RETRY_COUNT
    /\ task.oks <= 1
    /\ task.oks = 1 => task.pc \in {"loop", "callback", "returned", "cleaned"}
    /\ Len(task.waits) \in {task.errs - 1, task.errs}
    /\ ~task.seen_stop => Len(task.waits) = task.errs
    /\ \A n \in 1..Len(task.waits) : task.waits[n] = n * RETRY_TIMEOUT
C12_TaskTerminates ==
    /\ []C12_Bounded
    /\ (task.pc # "idle") ~> (task.pc \in {"returned", "panicked", "cleaned"})
C12_Witness ==
    /\ task.pc = "returned"
    /\ task.attempts = MAX_RETRY_COUNT
    /\ task.waits = <<RETRY_TIMEOUT, 2 * RETRY_TIMEOUT, 3 * RETRY_TIMEOUT>>
    /\ task.on_error

\* C13: transfer_batches sends at most one batch after the stop flag is set
\* (the one in flight), returns Cancelled only if the flag is set, and goes on
\* exactly until the source reports no next offset.
C13_StopCheckedBeforeBatch ==
    /\ task.batches_stopped <= 1
    /\ task.result = "Cancelled" => stopped
    /\ (task.pc = "check" /\ stopped) => task.batches_stopped = 0 \/ task.offset >= 1
    /\ task.pc \in {"check", "batch"} => task.offset < SourceBatches
    /\ (task.pc = "result" /\ task.result = "Ok") => task.offset = SourceBatches
C13_Witness ==
    /\ task.pc = "result"
    /\ task.result = "Cancelled"
    /\ task.offset = 2
    /\ task.batches_stopped = 1

C15_NoRemoteCallAfterStop ==
    task.rpcs_stopped <= 1

\* C16: dropping the handle of a task signals cancellation to it: a dropped
\* StoppableTaskHandle has set the stop flag of its task, a future of on_drop
\* dropped while its task runs has cancelled the token, and an on_drop that
\* returned the result of its task has left the token uncancelled.
C16_DropSignalsCancellation ==
    /\ (stoppable.handle = "dropped" /\ stoppable.flag_alive) => stoppable.flag
    /\ (drop_future.pc = "dropped" /\ drop_future.spawned = "running") => drop_future.cancelled
    /\ (drop_future.pc = "returned" /\ drop_future.spawned = "completed")
          => ~drop_future.cancelled

C17_WitnessCancelled ==
    /\ opt.phase = "unwrapped"
    /\ opt.stop
    /\ opt.during = {"upsert", "delete"}

\* C18: after any number of link_new_point calls, sequential or concurrent,
\* with or without the heuristic, a link list of level 0 has at most m0
\* entries and a link list of a level above 0 at most m.
C18_LinksBounded ==
    \A p \in PointOffsets, l \in Levels :
        Len(hnsw.links_layers[p][l]) <= IF l = 0 THEN m0 ELSE m

\* Every point is linked, by calls that ran at the same time, and a list of
\* level 0 and a list of the top level are full.
C18_Witness ==
    /\ hnsw.overlapped
    /\ hnsw.linked = PointOffsets
    /\ \E p \in PointOffsets : Len(hnsw.links_layers[p][0]) = m0
    /\ \E p \in PointOffsets : Len(hnsw.links_layers[p][MaxLevel]) = m

\* C20: with use_heuristic, links are symmetric once the link_new_point calls
\* have finished: q is in the level-k list of p exactly when p is in the
\* level-k list of q.
C20_LinksSymmetric ==
    (hnsw.use_heuristic /\ \A w \in Workers : hnsw.worker[w].pc = "idle") =>
        \A p, q \in PointOffsets, k \in Levels :
            q \in Range(hnsw.links_layers[p][k]) <=> p \in Range(hnsw.links_layers[q][k])

C21_RemovePrefersNonActive ==
    fn_call.op = "suggest_peer_to_remove_replica" =>
        LET loads == peer_loads(fn_call.shard_distribution)
            holders == {p \in PeerIds : fn_call.shard_peers[p] # NoReplica}
            active(p) == fn_call.shard_peers[p] = "Active"
            r == fn_call.result
        IN  /\ (r = NoPeer) = (holders = {})
            /\ r # NoPeer =>
                /\ r \in holders
                /\ (\E p \in holders : ~active(p)) => ~active(r)
                /\ \A p \in holders : active(p) = active(r) => loads[p] <= loads[r]

\* C22: suggest_peer_to_add_replica returns a peer that does not hold the shard
\* and has the fewest replicas among the peers that do not hold it, and returns
\* the same peer whenever it is called with the same distribution.
C22_AddFewestDeterministic ==
    fn_call.op = "suggest_peer_to_add_replica" =>
        LET loads == peer_loads(fn_call.shard_distribution)
            free == {p \in PeerIds : loads[p] > 0
                                     /\ p \notin fn_call.shard_distribution[fn_call.shard_id]}
            r == fn_call.result
        IN  /\ r # NoPeer => r \in free /\ \A p \in free : loads[r] <= loads[p]
            /\ fn_call.again = r

\* C23: validate_transfer accepts a transfer only if the shard exists, both
\* peers are known and the source replica is Active, and every rejection is a
\* BadRequest.
C23_RejectionIsBadRequest ==
    fn_call.op = "validate_transfer" =>
        LET t == fn_call.transfer IN
        /\ fn_call.result = "Ok" =>
            /\ fn_call.shard_state.present
            /\ t.from \in fn_call.all_peers
            /\ t.to \in fn_call.all_peers
            /\ fn_call.shard_state.peers[t.from] = "Active"
        /\ fn_call.result # "Ok" => fn_call.result = "BadRequest"

\* C24: a transfer without a method is carried out like a StreamRecords one and
\* is never cut short once the local shard is wrapped in a proxy.
C24_NoMethodNeverAborts ==
    task.transfer.method = NoMethod => task.pc # "panicked"

\* C25: a point operation on a segment whose version is lower than or equal to
\* the version stored for the point leaves the segment as it was.
C25_LowerOrEqualVersionIsNoOp ==
    (segment.last.op # "-" /\ segment.last.stored >= 0 /\ segment.last.op_num <= segment.last.stored)
        => ~segment.last.changed

\* C26: after the collection is closed and loaded again it reports the vector
\* count and returns the points and payloads it had when it was closed, whatever
\* upserts and deletes were acknowledged before; and an upsert of an id the
\* collection already has leaves the vector count as it was.
C26_ReloadDurability ==
    /\ coll.fresh =>
        /\ retrievable(coll.points) = retrievable(coll.closed)
        /\ vectors_count(coll.points) = vectors_count(coll.closed)
    /\ coll.again => vectors_count(coll.points) = coll.count_before
\* A collection loaded after a delete and an upsert that were never flushed.
C26_Witness ==
    /\ coll.fresh
    /\ coll.disk # coll.points
    /\ \E i, j \in 1..Len(coll.wal) : coll.wal[i].kind = "delete" /\ coll.wal[j].kind = "upsert"
\* The ids upserted again after a reload.
C26_WitnessAgain ==
    /\ coll.again
    /\ coll.open
    /\ coll.closed # NoPoints
    /\ vectors_count(coll.points) = MaxPointId

\* C27: every merged list of query_internal has each point id at most once,
\* whatever scores the shards return the point with.
C27_MergedIdsUnique ==
    fn_call.op = "query_internal" =>
        \A q \in 1..Len(fn_call.results) :
            \A i, j \in 1..Len(fn_call.results[q]) :
                i # j => fn_call.results[q][i].id # fn_call.results[q][j].id

\* C28: query_internal returns one list per prefetch when the root query is an
\* RRF fusion and one list otherwise; every list is in the query's order and
\* has at most `take` points: the prefetch's limit, or offset + limit.
C28_OneSortedListPerQuery ==
    fn_call.op = "query_internal" =>
        LET request == fn_call.request
            results == fn_call.results
        IN  /\ Len(results) = IF request.fusion THEN Len(request.prefetches) ELSE 1
            /\ \A q \in 1..Len(results) :
                /\ sorted_in(fn_call.order, results[q])
                /\ Len(results[q]) <= IF request.fusion THEN request.prefetches[q]
                                      ELSE request.offset + request.limit
\* An RRF fusion over two prefetches of different limits, answered by two
\* shards with more points than the first limit lets through.
C28_Witness ==
    /\ fn_call.op = "query_internal"
    /\ fn_call.request.fusion
    /\ Len(fn_call.request.prefetches) = 2
    /\ fn_call.request.prefetches[1] < fn_call.request.prefetches[2]
    /\ Len(fn_call.all_shards_results) = 2
    /\ Len(fn_call.results[1]) = fn_call.request.prefetches[1]
    /\ Len(fn_call.all_shards_results[1][1]) + Len(fn_call.all_shards_results[2][1]) > 2
    /\ Len(fn_call.results[2]) > Len(fn_call.results[1])

\* The BatchIdx leaves of a list of sources, read depth-first.
RECURSIVE batch_leaves(_)
batch_leaves(sources) ==
    IF sources = <<>> THEN <<>>
    ELSE (IF sources[1].kind = "BatchIdx" THEN <<sources[1].idx>>
          ELSE batch_leaves(sources[1].plan.sources)) \o batch_leaves(Tail(sources))
\* The sources follow the prefetches one to one: a prefetch without
\* sub-prefetches is a leaf whose search has its query and limit, a prefetch
\* with sub-prefetches is a nested plan that rescores with its query, keeps its
\* limit and follows its sub-prefetches.
RECURSIVE plan_follows(_, _, _)
plan_follows(sources, prefetches, batch) ==
    /\ Len(sources) = Len(prefetches)
    /\ \A i \in 1..Len(prefetches) :
        IF prefetches[i].prefetches = <<>>
        THEN /\ sources[i].kind = "BatchIdx"
             /\ sources[i].idx + 1 \in 1..Len(batch)
             /\ batch[sources[i].idx + 1].query = prefetches[i].query
             /\ batch[sources[i].idx + 1].limit = prefetches[i].limit
        ELSE /\ sources[i].kind = "Prefetch"
             /\ sources[i].plan.merge.rescore = prefetches[i].query
             /\ sources[i].plan.merge.limit = prefetches[i].limit
             /\ plan_follows(sources[i].plan.sources, prefetches[i].prefetches, batch)

\* C29: the BatchIdx leaves of the merge plan, read depth-first, are 0, 1, ...,
\* batch length - 1; there is one leaf per prefetch without sub-prefetches, or
\* the single root search when the request has no prefetch; every prefetch with
\* sub-prefetches is a nested plan with the prefetch's query and limit.
C29_PlanCoversBatch ==
    fn_call.op = "planned_query" =>
        LET planned == fn_call.planned
            request == fn_call.request
        IN  /\ batch_leaves(planned.merge_plan.sources)
                 = [i \in 1..Len(planned.batch) |-> i - 1]
            /\ IF request.prefetches = <<>>
               THEN /\ planned.merge_plan.sources = <<BatchIdx(0)>>
                    /\ Len(planned.batch) = 1
                    /\ planned.batch[1].query = request.query
               ELSE plan_follows(planned.merge_plan.sources, request.prefetches,
                                 planned.batch)
\* A request whose first prefetch has two sub-prefetches and whose second has none.
C29_Witness ==
    /\ fn_call.op = "planned_query"
    /\ Len(fn_call.request.prefetches) = 2
    /\ Len(fn_call.request.prefetches[1].prefetches) = 2
    /\ fn_call.request.prefetches[2].prefetches = <<>>
    /\ Len(fn_call.planned.batch) = 3
    /\ fn_call.planned.merge_plan.sources[2] = BatchIdx(2)

\* The segments the claim calls promotable, in the claim's words.
Promotable ==
    IF fn_call.op # "check_condition" THEN {}
    ELSE LET t == fn_call.thresholds_config IN
         {idx \in DOMAIN fn_call.segments :
            LET s == fn_call.segments[idx] IN
            /\ s.segment_type # "Special"
            /\ \/ (s.vectors_count >= t.memmap_threshold /\ s.storage_type = "InMemory")
               \/ (s.vectors_count >= t.indexing_threshold /\ s.index = "Plain")
               \/ (s.has_payload /\ s.vectors_count >= t.payload_indexing_threshold
                   /\ s.payload_index = "Plain")}
\* C30: check_condition returns at most one segment id; the id is of a segment
\* that is not Special, is promotable and has the largest vector count among
\* those; nothing is returned exactly when no such segment exists.
C30_WorstSegmentIsLargestPromotable ==
    fn_call.op = "check_condition" =>
        /\ Len(fn_call.result) <= 1
        /\ (fn_call.result = <<>>) = (Promotable = {})
        /\ fn_call.result # <<>> =>
            /\ fn_call.result[1] \in Promotable
            /\ \A other \in Promotable :
                fn_call.segments[other].vectors_count
                    <= fn_call.segments[fn_call.result[1]].vectors_count
\* Two promotable segments, the second one larger, and it is returned.
C30_Witness ==
    /\ fn_call.op = "check_condition"
    /\ Promotable = {1, 2}
    /\ fn_call.segments[1].vectors_count < fn_call.segments[2].vectors_count
    /\ fn_call.result = <<2>>
\* A larger Special segment is passed over for a smaller promotable one.
C30_WitnessSpecial ==
    /\ fn_call.op = "check_condition"
    /\ Len(fn_call.segments) = 2
    /\ fn_call.segments[1].segment_type = "Special"
    /\ fn_call.segments[1].vectors_count > fn_call.segments[2].vectors_count
    /\ fn_call.segments[1].index = "Plain"
    /\ fn_call.result = <<2>>

\* C34: abort_resharding called with a key that does not match the resharding
\* in progress leaves that resharding untouched: its ReshardState, its stage
\* and the hash ring it is using are as they were.
C34_StaleAbortLeavesResharding ==
    \A key \in ReshardKeys :
        (resharding_state.present /\ ~matches(resharding_state, key))
            => LET r == abort_resharding(Holder, key, FALSE, "none", {})
               IN  /\ r.h.resharding_state = resharding_state
                   /\ r.h.rings[resharding_state.shard_key] = rings[resharding_state.shard_key]

\* C35: under every interleaving of the worker of spawn_stoppable with the
\* caller, a worker that read the stop flag set never starts the task function,
\* and StoppableTaskHandle::stop returns None only if the task function never
\* runs.
C35_NoneMeansNeverRuns ==
    /\ stoppable.worker = "skipped" => ~stoppable.started
    /\ stoppable.stop_returned = "None" => stoppable.worker \notin {"running", "finished"}

\* C37: after any sequential or concurrent sequence of link_new_point calls no
\* link list contains its own point and no link list contains the same
\* neighbour twice.
C37_NoSelfNoDuplicateLinks ==
    \A p \in PointOffsets, l \in Levels :
        LET links == hnsw.links_layers[p][l]
        IN  /\ p \notin Range(links)
            /\ \A i, j \in 1..Len(links) : i # j => links[i] # links[j]

\* The candidates before candidate i that a selection has taken.
selected_before(call, i) == {call.candidates[j] : j \in 1..(i - 1)} \cap Range(call.result)

\* C40: select_candidate_with_heuristic_from_sorted returns at most m
\* candidates, in the order they were given, with the first candidate when
\* m > 0; a later candidate is in the result exactly when fewer than m are
\* selected before it and no selected point is closer to it than the base is.
C40_HeuristicSelection ==
    fn_call.op = "select_candidate_with_heuristic_from_sorted" =>
        LET candidates == fn_call.candidates
            result == fn_call.result
        IN  /\ Len(result) <= fn_call.m
            /\ \A k \in 1..Len(result) : \E i \in 1..Len(candidates) :
                   /\ candidates[i] = result[k]
                   /\ Cardinality(selected_before(fn_call, i)) = k - 1
            /\ (fn_call.m > 0 /\ candidates # <<>>) => result[1] = candidates[1]
            /\ \A i \in 2..Len(candidates) :
                   candidates[i] \in Range(result) <=>
                       /\ Cardinality(selected_before(fn_call, i)) < fn_call.m
                       /\ \A selected_point \in selected_before(fn_call, i) :
                              score_internal(candidates[i], selected_point)
                                  <= score_internal(candidates[i], fn_call.base)

\* A selection that drops a candidate for a selected point closer to it, and
\* takes a later one.
C40_Witness ==
    /\ fn_call.op = "select_candidate_with_heuristic_from_sorted"
    /\ Len(fn_call.candidates) >= 3
    /\ Len(fn_call.result) >= 2
    /\ Len(fn_call.result) < fn_call.m
    /\ \E i \in 2..Len(fn_call.candidates) :
           /\ fn_call.candidates[i] \notin Range(fn_call.result)
           /\ \E j \in (i + 1)..Len(fn_call.candidates) :
                  fn_call.candidates[j] \in Range(fn_call.result)

\* C38: points_count is the number of documents indexed at the moment, and
\* remove_document of a point that has no document (removed before, or never
\* indexed) returns None and leaves the count and the stored documents alone.
C38_PointsCountIsDocuments ==
    /\ inverted_index.points_count
           = Cardinality({idx \in Idxs : is_document(inverted_index.point_to_docs, idx)})
    /\ (inverted_index.last.op = "remove_document" /\ ~inverted_index.last.indexed)
           => /\ inverted_index.last.result = "None"
              /\ inverted_index.points_count = inverted_index.last.count_before
              /\ inverted_index.point_to_docs = inverted_index.last.docs_before

\* C32: check_strict_mode rejects every request whose timeout exceeds
\* strict_mode.max_timeout, as it rejects one whose limit exceeds
\* max_query_limit.
C32_MaxTimeoutEnforced ==
    fn_call.op = "check_strict_mode" =>
        /\ (/\ fn_call.request.query_limit.some
            /\ fn_call.strict_mode_config.max_query_limit.some
            /\ fn_call.request.query_limit.value
                   > fn_call.strict_mode_config.max_query_limit.value)
               => fn_call.result = "StrictMode"
        /\ (/\ fn_call.request.timeout.some
            /\ fn_call.strict_mode_config.max_timeout.some
            /\ fn_call.request.timeout.value > fn_call.strict_mode_config.max_timeout.value)
               => fn_call.result = "StrictMode"

\* C39: the planned query keeps the root's filter, score threshold and search
\* params, with prefetches as well as without: each of them that the request
\* sets is in a core search of the batch (the root merge step has a rescore
\* query and a limit only).
C39_RootRestrictionsKept ==
    fn_call.op = "planned_query" =>
        LET request == fn_call.request
            batch == fn_call.planned.batch
        IN  /\ request.filter # NoFilter
                   => \E i \in 1..Len(batch) : batch[i].filter = request.filter
            /\ request.score_threshold # NoScoreThreshold
                   => \E i \in 1..Len(batch) : batch[i].score_threshold = request.score_threshold
            /\ request.params # NoParams
                   => \E i \in 1..Len(batch) : batch[i].params = request.params

\* C33: a ChangeAliases operation is atomic: no other operation observes a
\* state between two of its actions, and when one of its actions fails none
\* of the earlier ones remains applied.
C33_ChangeAliasesAtomic ==
    /\ ~toc.observed_mid
    /\ toc.meta.pc = "failed" => toc.aliases = toc.meta.before

\* C36: get_collection always returns while create_collection,
\* delete_collection or update_aliases run: taking the read lock a second time
\* in resolve_name never leaves it waiting for ever.
C36_GetCollectionReturns ==
    (toc.client.op = "get_collection" /\ toc.client.pc \in {"read1", "read2"})
        ~> (toc.client.pc \notin {"read1", "read2"})

\* The segments the holder was seeded with that are still in it and appendable.
seeded_appendable_left ==
    appendable_segments(indexing.segments, indexing.produced) \ indexing.fresh

====
